---- MODULE Spec2Model ----
(***************************************************************************)
(* GreenGiant backend: the HTTP request handlers that write thresholds,    *)
(* relay actuator commands to the Raspberry Pi, change settings, manage    *)
(* users and log in / out, and the Socket.IO presence handlers.  Every     *)
(* handler is cut at its `await`s: one action per continuation.            *)
(***************************************************************************)
EXTENDS Integers, Sequences, FiniteSets, TLC

\* ------------------------------------------------------------------ bounds
\* HTTP requests served in one run
NumReq == 2
\* actuator commands / resume-auto requests served in one run
NumManualReq == 1
\* Socket.IO connections opened in one run
NumSock == 2
\* connections opened while login, logout and ban requests are served
NumSessionSock == 1

\* online-users queries served while connections open, close and are cut
NumQuery == 1
\* longest batch a device submission carries
MaxBatch == 2

Req == 1..NumReq
Sock == 1..NumSock

\* ------------------------------------------------------- program constants
\* lastSyncedWithArduino has no default: absent until the first stamp
NoDate == 0
NoUser == "none"
NoToken == "none"

validKeys == {"soil1", "soil2", "temp_high", "temp_low", "hum_high",
              "hum_low", "npk_n", "npk_p", "npk_k"}

validActuators == {"pump_water", "pump_nutrient", "fan_exhaust", "peltier",
                   "fan_peltier_hot", "fan_peltier_cold"}

\* the actuators for which /control relays a pwm value
pwmActuators == {"fan_exhaust", "peltier"}

ThresholdDefaults ==
    [soil1 |-> 60, soil2 |-> 60, temp_high |-> 35, temp_low |-> 15,
     hum_high |-> 80, hum_low |-> 30, npk_n |-> 20, npk_p |-> 20, npk_k |-> 20,
     lastUpdatedBy |-> NoUser, lastSyncedWithArduino |-> NoDate]

\* The accounts of the User collection the requests are made with.
UserIds == {"hana", "ada", "uma", "rob", "ben"}

\* a User document: the schema's defaults around role, status and username
SeedUser(role, status, name) ==
    [role |-> role, status |-> status, theme |-> "light", username |-> name,
     lastLogin |-> NoDate, isOnline |-> FALSE, socketId |-> 0,
     password |-> "secret", exists |-> TRUE]

UserSeed ==
    [hana |-> SeedUser("head_admin", "active", "hana"),
     ada  |-> SeedUser("admin", "active", "ada"),
     uma  |-> SeedUser("user", "active", "uma"),
     rob  |-> SeedUser("user", "restricted", "rob"),
     ben  |-> SeedUser("user", "banned", "ben")]

\* ------------------------------------------------------------------ inputs
\* Bearer tokens presented: a valid token of an account, or none / invalid.
Tokens == {"uma", "rob", "ben", NoToken}

\* Bodies of PUT /api/thresholds: the named fields and their values.
EmptyBody == [k \in {} |-> 0]
Bodies ==
    { EmptyBody,
      [k \in {"soil1"} |-> 35],
      [k \in {"temp_high"} |-> 40],
      [k \in {"soil1", "temp_high"} |-> IF k = "soil1" THEN 60 ELSE 40],
      [k \in {"soil1", "bogus"} |-> 70] }

\* A JSON value of the pwm field: absent, a number (kept in tenths, so that
\* 1207 is 120.7), or a string that does not start with a number.
Undefined == [t |-> "undefined", x10 |-> 0]
NaN == [t |-> "NaN", x10 |-> 0]
Num(n) == [t |-> "num", x10 |-> 10 * n]
Tenths(x) == [t |-> "num", x10 |-> x]
NonNumeric == [t |-> "str", x10 |-> 0]

PwmInputs == {Undefined, NonNumeric, Num(-10), Tenths(-5), Num(0), Num(120),
              Tenths(1207), Num(255), Num(300), Num(400)}
ActuatorInputs == {"pump_water", "fan_exhaust", "peltier", "bogus", ""}
\* state as sent: JSON true, JSON false, another JSON value, or absent
StateInputs == {"true", "false", "\"on\"", "undefined"}
\* bodies of POST /api/manual/control
ControlBodies ==
    [actuator : ActuatorInputs, state : StateInputs, pwm : PwmInputs]

NoCommand == [actuator |-> "", state |-> "undefined", pwm |-> Undefined]

\* tokens the admin routes are called with, and the :id they name
AdminTokens == {"hana", "ada", "uma", "rob"}
AdminTargets == {"hana", "ada", "uma", "rob"}

\* tokens and login names of the session requests
SessionTokens == {"hana", "uma", "ben"}
LoginNames == {"", "uma", "ben"}

\* req.body.theme of PUT /api/settings/theme
ThemeInputs == {"dark", "auto", "neon"}
\* req.body.newUsername of PUT /api/settings/username: absent, taken, free
UsernameInputs == {"", "hana", "uma2"}

\* ---------------------------------------------------------------- state
VARIABLES
    now,          \* the wall clock (new Date())
    users,        \* User collection: id -> document
    thresholds,   \* Threshold collection: the documents, in natural order
    activityLog,  \* ActivityLog collection (append-only)
    reqs,         \* the HTTP requests: position in the handler and its locals
    relayCalls,   \* axios.post calls issued to the Pi
    pi,           \* what the Pi has accepted
    emitted,      \* io.emit / io.to().emit calls: topic, payload, receivers
    socks,        \* Socket.IO connections
    piData,       \* the collections the Pi feeds: Reading, Event, SystemAlert,
                  \* PiStatus
    resets        \* ForgotPasswordRequest collection: id -> document

vars == <<now, users, thresholds, activityLog, reqs, relayCalls, pi, emitted,
          socks, piData, resets>>

\* the ids of the stored password reset requests
ResetIds == {1}

\* no password reset request
NoReset == [user |-> NoUser, status |-> "none", approvedBy |-> NoUser,
            resolvedAt |-> NoDate]

\* no document: what findById / findOne resolve to when nothing matches
NoDoc == SeedUser("none", "none", "")

NoResp == [status |-> 0, success |-> FALSE, text |-> "", hasData |-> FALSE,
           data |-> ThresholdDefaults]

ReqIdle ==
    [pc |-> "idle", route |-> "none", token |-> NoToken, t0 |-> 0,
     updates |-> EmptyBody, cmd |-> NoCommand,
     user |-> NoUser, isRestricted |-> FALSE, role |-> "none",
     lookupOk |-> FALSE, target |-> NoUser, flag |-> FALSE, input |-> "",
     tdoc |-> NoDoc, wrote |-> FALSE,
     docId |-> 0, loaded |-> ThresholdDefaults, base |-> ThresholdDefaults,
     doc |-> ThresholdDefaults, changed |-> EmptyBody,
     saved |-> FALSE, synced |-> FALSE, relay |-> "none", command |-> NoCommand,
     batch |-> <<>>, stamp |-> NoDate,
     requestId |-> 0, request |-> NoReset,
     resp |-> NoResp]

SockIdle == [pc |-> "new", token |-> NoToken, error |-> "", user |-> NoUser,
             openedAt |-> 0, handledAt |-> 0, closedAt |-> 0,
             updated |-> FALSE]

\* sockets io.emit reaches: connected to the namespace and not yet disconnected
LiveSockets == {s \in Sock : socks[s].pc \in {"connecting", "open"}}

InFlight == {r \in Req : reqs[r].pc \notin {"idle", "done"}}

\* ------------------------------------------------------------ responses
Json(status, success, text) ==
    [status |-> status, success |-> success, text |-> text, hasData |-> FALSE,
     data |-> ThresholdDefaults]

JsonData(status, success, text, data) ==
    [status |-> status, success |-> success, text |-> text, hasData |-> TRUE,
     data |-> data]

Finish(r, resp) ==
    reqs' = [reqs EXCEPT ![r] = [@ EXCEPT !.pc = "done", !.resp = resp]]

\* ------------------------------------------------------ Threshold model
\* const changed = {}; for (const key of validKeys) if (updates[key] !== undefined) ...
Changed(updates) == [k \in (DOMAIN updates \cap validKeys) |-> updates[k]]

ApplyUpdates_Replace(doc, updates, uid) ==
    [k \in DOMAIN doc |->
        IF k \in DOMAIN Changed(updates) THEN updates[k]
        ELSE IF k = "lastUpdatedBy" THEN uid
        ELSE ThresholdDefaults[k]]

\* thresholds[key] = updates[key] for the valid keys; thresholds.lastUpdatedBy = req.user._id
ApplyUpdates(doc, updates, uid) ==
    [k \in DOMAIN doc |->
        IF k \in DOMAIN Changed(updates) THEN updates[k]
        ELSE IF k = "lastUpdatedBy" THEN uid
        ELSE doc[k]]

\* document.save() of a loaded document writes the paths modified since it was
\* loaded or last saved, and no other path
ModifiedPaths(base, doc) == {k \in DOMAIN doc : doc[k] # base[k]}

SaveDoc_KeysOnly(stored, base, doc) ==
    [k \in DOMAIN stored |->
        IF k \in ModifiedPaths(base, doc) \cap validKeys THEN doc[k] ELSE stored[k]]

SaveDoc(stored, base, doc) ==
    [k \in DOMAIN stored |->
        IF k \in ModifiedPaths(base, doc) THEN doc[k] ELSE stored[k]]

\* the Pi applies the fields of an accepted POST /api/thresholds/bulk
PiApply(dev, changed) ==
    [k \in DOMAIN dev |-> IF k \in DOMAIN changed THEN changed[k] ELSE dev[k]]

RelayOutcomes_NoTimeout == {"ok", "network_error", "non_2xx"}

\* outcomes of an axios.post with timeout 5000: a 2xx answer in time; the
\* timeout with the request lost; the timeout with the Pi answering too late
\* (it has accepted the request); a network error; a non-2xx answer
RelayOutcomes == {"ok", "timeout", "timeout_late", "network_error", "non_2xx"}
PiAccepted(outcome) == outcome \in {"ok", "timeout_late"}

RelayCall(r, path, changed, command) ==
    [by |-> r, path |-> path, changed |-> changed, command |-> command]

Event(topic, r, changed, cmd, user, to) ==
    [topic |-> topic, req |-> r, changed |-> changed, cmd |-> cmd,
     user |-> user, to |-> to, doc |-> 0]

LogEntry(r, user, action, changed, cmd) ==
    [req |-> r, user |-> user, action |-> action, changed |-> changed,
     cmd |-> cmd]

\* ------------------------------------------------------ manual control
Trunc10(x) == IF x >= 0 THEN x \div 10 ELSE -((-x) \div 10)

\* parseInt(pwm): the integer a number starts with, NaN when there is none
ParseInt(v) ==
    IF v.t = "num" THEN Tenths(10 * Trunc10(v.x10)) ELSE NaN

\* Math.min / Math.max: NaN when an argument is NaN
MathMin(a, b) ==
    IF a.t = "NaN" \/ b.t = "NaN" THEN NaN
    ELSE IF a.x10 <= b.x10 THEN a ELSE b

MathMax(a, b) ==
    IF a.t = "NaN" \/ b.t = "NaN" THEN NaN
    ELSE IF a.x10 >= b.x10 THEN a ELSE b

ClampPwm_NoFloor(pwm) == MathMin(Num(255), ParseInt(pwm))

\* command.pwm = Math.max(0, Math.min(255, parseInt(pwm)))
ClampPwm(pwm) == MathMax(Num(0), MathMin(Num(255), ParseInt(pwm)))

\* const command = { actuator, state }; pwm only for fan_exhaust and peltier
BuildCommand(body) ==
    [actuator |-> body.actuator, state |-> body.state,
     pwm |-> IF body.pwm # Undefined /\ body.actuator \in pwmActuators
             THEN ClampPwm(body.pwm) ELSE Undefined]

\* the two 400 checks of /control; NoResp when the body passes
ControlValidation(body) ==
    IF body.actuator = "" \/ body.actuator \notin validActuators
    THEN Json(400, FALSE, "Invalid actuator")
    ELSE IF body.state \notin {"true", "false"}
    THEN Json(400, FALSE, "State must be true or false")
    ELSE NoResp

ControlRelay_BeforeValidation(r, body) ==
    Append(relayCalls, RelayCall(r, "/api/manual", EmptyBody, BuildCommand(body)))

\* the axios.post of /control, issued once the body has passed the checks
ControlRelay(r, body) ==
    IF ControlValidation(body) # NoResp THEN relayCalls
    ELSE Append(relayCalls,
                RelayCall(r, "/api/manual", EmptyBody, BuildCommand(body)))

\* ------------------------------------------------------------ middleware
ThresholdRoutes == {"GET /api/thresholds", "PUT /api/thresholds"}
ManualRoutes == {"POST /api/manual/control", "POST /api/manual/auto"}
SettingsRoutes == {"PUT /api/settings/theme", "PUT /api/settings/username",
                   "GET /api/settings"}
AdminRoutes == {"DELETE /api/admin/users/:id", "PUT /api/admin/users/:id/ban",
                "PUT /api/admin/users/:id/restrict",
                "PUT /api/admin/users/:id/promote",
                "PUT /api/admin/users/:id/demote"}
\* routes behind headAdminOnly
HeadAdminRoutes == {"PUT /api/admin/users/:id/promote",
                    "PUT /api/admin/users/:id/demote"}
ONLINE == "GET /api/admin/users/online"
APPROVE == "POST /api/admin/forgot-password/:id/approve"
REJECT == "POST /api/admin/forgot-password/:id/reject"
ResetRoutes == {APPROVE, REJECT}
\* req.params.id of the reset routes: the stored request, an unknown id
ResetIdInputs == {1, 2}
\* req.body.newPassword: absent, given
PasswordInputs == {"", "new-secret"}
LOGIN == "POST /api/auth/login"
LOGOUT == "POST /api/auth/logout"
\* routes behind allowWrite
WriteRoutes == {"PUT /api/thresholds", "PUT /api/settings/username"}
                   \cup ManualRoutes

ProtectReject_SkipsBanned(token, dbOk) ==
    IF token = NoToken THEN Json(401, FALSE, "Not authorized to access this route")
    ELSE IF ~dbOk THEN Json(401, FALSE, "Not authorized to access this route")
    ELSE IF ~users[token].exists THEN Json(401, FALSE, "User no longer exists")
    ELSE NoResp

\* protect: the 401 / 403 it answers with, NoResp when it calls next()
ProtectReject(token, dbOk) ==
    IF token = NoToken THEN Json(401, FALSE, "Not authorized to access this route")
    ELSE IF ~dbOk THEN Json(401, FALSE, "Not authorized to access this route")
    ELSE IF ~users[token].exists THEN Json(401, FALSE, "User no longer exists")
    ELSE IF users[token].status = "banned"
    THEN Json(403, FALSE, "Your account has been banned")
    ELSE NoResp

\* allowWrite
AllowWriteReject(q) ==
    IF q.route \in WriteRoutes /\ q.isRestricted
    THEN Json(403, FALSE, "Your account is restricted. You can only view data.")
    ELSE NoResp

\* /api/settings: the handlers up to their first await
DispatchSettings(r, q) ==
    IF q.route = "GET /api/settings"
    THEN reqs' = [reqs EXCEPT ![r] = [q EXCEPT !.pc = "done",
                                               !.resp = Json(200, TRUE, "")]]
    ELSE IF q.route = "PUT /api/settings/theme"
    THEN \E theme \in ThemeInputs :
         reqs' = [reqs EXCEPT ![r] =
            IF theme \notin {"light", "dark", "auto"}
            THEN [q EXCEPT !.pc = "done", !.input = theme,
                     !.resp = Json(400, FALSE,
                                   "Invalid theme. Choose: light, dark, or auto")]
            ELSE [q EXCEPT !.pc = "themeSave", !.input = theme]]
    ELSE \E name \in UsernameInputs :
         reqs' = [reqs EXCEPT ![r] =
            IF name = ""
            THEN [q EXCEPT !.pc = "done", !.input = name,
                     !.resp = Json(400, FALSE, "New username required")]
            ELSE [q EXCEPT !.pc = "nameFind", !.input = name]]

\* adminOnly: req.user.isAdmin()
AdminOnlyReject(q) ==
    IF q.role \notin {"admin", "head_admin"}
    THEN Json(403, FALSE, "Access denied. Admin privileges required.")
    ELSE NoResp

HeadAdminOnlyReject_AnyAdmin(q) ==
    AdminOnlyReject(q)

\* headAdminOnly: req.user.isHeadAdmin()
HeadAdminOnlyReject(q) ==
    IF q.role # "head_admin"
    THEN Json(403, FALSE, "Access denied. Head Admin privileges required.")
    ELSE NoResp

\* /api/admin: adminOnly, headAdminOnly on promote and demote, then the
\* handler up to its await User.findById(req.params.id)
DispatchAdmin(r, q) ==
    IF AdminOnlyReject(q) # NoResp
    THEN reqs' = [reqs EXCEPT ![r] = [q EXCEPT !.pc = "done",
                                               !.resp = AdminOnlyReject(q)]]
    ELSE IF q.route \in HeadAdminRoutes /\ HeadAdminOnlyReject(q) # NoResp
    THEN reqs' = [reqs EXCEPT ![r] = [q EXCEPT !.pc = "done",
                                               !.resp = HeadAdminOnlyReject(q)]]
    ELSE \E target \in AdminTargets, flag \in BOOLEAN :
         /\ (flag => q.route \in {"PUT /api/admin/users/:id/ban",
                                  "PUT /api/admin/users/:id/restrict"})
         /\ reqs' = [reqs EXCEPT ![r] = [q EXCEPT !.pc = "adminFind",
                                            !.target = target, !.flag = flag]]

\* the reset routes after protect: adminOnly, the 400 of approve without a
\* newPassword, then await ForgotPasswordRequest.findById
DispatchReset(r, q) ==
    IF AdminOnlyReject(q) # NoResp
    THEN reqs' = [reqs EXCEPT ![r] = [q EXCEPT !.pc = "done",
                                               !.resp = AdminOnlyReject(q)]]
    ELSE \E id \in ResetIdInputs, newPassword \in PasswordInputs :
         reqs' = [reqs EXCEPT ![r] =
            IF q.route = APPROVE /\ newPassword = ""
            THEN [q EXCEPT !.pc = "done", !.requestId = id,
                           !.resp = Json(400, FALSE, "New password required")]
            ELSE [q EXCEPT !.pc = "resetFind", !.requestId = id,
                           !.input = newPassword]]

\* what runs after the middleware, up to the handler's first await
Dispatch(r, q) ==
    IF AllowWriteReject(q) # NoResp
    THEN /\ reqs' = [reqs EXCEPT ![r] = [q EXCEPT !.pc = "done",
                                                  !.resp = AllowWriteReject(q)]]
         /\ UNCHANGED relayCalls
    ELSE IF q.route \in ThresholdRoutes
    THEN /\ reqs' = [reqs EXCEPT ![r] = [q EXCEPT !.pc = "findOne"]]
         /\ UNCHANGED relayCalls
    ELSE IF q.route \in SettingsRoutes
    THEN DispatchSettings(r, q) /\ UNCHANGED relayCalls
    ELSE IF q.route \in AdminRoutes
    THEN DispatchAdmin(r, q) /\ UNCHANGED relayCalls
    ELSE IF q.route \in ResetRoutes
    THEN DispatchReset(r, q) /\ UNCHANGED relayCalls
    ELSE IF q.route = ONLINE
    THEN /\ reqs' = [reqs EXCEPT ![r] =
                IF AdminOnlyReject(q) # NoResp
                THEN [q EXCEPT !.pc = "done", !.resp = AdminOnlyReject(q)]
                ELSE [q EXCEPT !.pc = "onlineFind"]]
         /\ UNCHANGED relayCalls
    ELSE IF q.route = LOGOUT
    THEN /\ reqs' = [reqs EXCEPT ![r] = [q EXCEPT !.pc = "logoutSave",
                                                  !.tdoc = users[q.user]]]
         /\ UNCHANGED relayCalls
    ELSE IF q.route = "POST /api/manual/control"
    THEN \E body \in ControlBodies :
         /\ reqs' = [reqs EXCEPT ![r] =
                IF ControlValidation(body) # NoResp
                THEN [q EXCEPT !.pc = "done", !.cmd = body,
                               !.resp = ControlValidation(body)]
                ELSE [q EXCEPT !.pc = "relay", !.cmd = body,
                               !.command = BuildCommand(body)]]
         /\ relayCalls' = ControlRelay(r, body)
    ELSE /\ reqs' = [reqs EXCEPT ![r] = [q EXCEPT !.pc = "relay"]]
         /\ relayCalls' = Append(relayCalls,
                RelayCall(r, "/api/auto", EmptyBody, NoCommand))

\* ------------------------------------------------------------- actions
\* A request arrives while no other is being served.
Arrive(r, route, token) ==
    /\ reqs[r].pc = "idle"
    /\ InFlight = {}
    /\ \A q \in Req : q < r => reqs[q].pc # "idle"
    /\ now' = now + 1
    /\ reqs' = [reqs EXCEPT ![r] = [@ EXCEPT !.pc = "protect", !.route = route,
                   !.token = token, !.t0 = now + 1]]
    /\ UNCHANGED <<users, thresholds, activityLog, relayCalls, pi, emitted, socks,
                   piData, resets>>

ArriveThresholds(r) ==
    \E route \in ThresholdRoutes, token \in Tokens : Arrive(r, route, token)

ArriveManual(r) ==
    \E route \in ManualRoutes, token \in Tokens : Arrive(r, route, token)

\* protect (await User.findById), then allowWrite and the handler up to its
\* first await
\* the role a request is judged by: that of the document protect has just
\* loaded, req.user.role; the role claim of the token (decoded.role, the role
\* when the token was signed) is never read
RoleOf_Decoded(token) == UserSeed[token].role

RoleOf(token) == users[token].role

Protect(r) ==
    /\ reqs[r].pc = "protect"
    /\ \E dbOk \in BOOLEAN :
         LET q == reqs[r] IN
         IF ProtectReject(q.token, dbOk) # NoResp
         THEN Finish(r, ProtectReject(q.token, dbOk)) /\ UNCHANGED relayCalls
         ELSE Dispatch(r, [q EXCEPT !.user = q.token, !.lookupOk = TRUE,
                  !.role = RoleOf(q.token),
                  !.isRestricted = (users[q.token].status = "restricted")])
    /\ UNCHANGED <<now, users, thresholds, activityLog, pi, emitted, socks,
                   piData, resets>>

\* the handler once Threshold.getCurrent() has returned `stored`, document id
\* `id`: GET answers; PUT applies the updates of req.body and calls save()
WithCurrent(r, id, stored) ==
    LET q == reqs[r] IN
    IF q.route = "GET /api/thresholds"
    THEN Finish(r, JsonData(200, TRUE, "", stored))
    ELSE \E updates \in Bodies :
         reqs' = [reqs EXCEPT ![r] = [q EXCEPT !.pc = "save", !.docId = id,
                     !.updates = updates,
                     !.loaded = stored, !.base = stored,
                     !.doc = ApplyUpdates(stored, updates, q.user),
                     !.changed = Changed(updates)]]

\* getCurrent: await this.findOne()
ThFindOne(r) ==
    /\ reqs[r].pc = "findOne"
    /\ \E dbOk \in BOOLEAN :
         IF ~dbOk THEN Finish(r, Json(500, FALSE, "Server error"))
         ELSE IF thresholds = <<>>
         THEN reqs' = [reqs EXCEPT ![r] = [@ EXCEPT !.pc = "create"]]
         ELSE WithCurrent(r, 1, thresholds[1])
    /\ UNCHANGED <<now, users, thresholds, activityLog, relayCalls, pi, emitted, socks,
                   piData, resets>>

\* getCurrent: await this.create({})
ThCreate(r) ==
    /\ reqs[r].pc = "create"
    /\ \E dbOk \in BOOLEAN :
         IF ~dbOk
         THEN Finish(r, Json(500, FALSE, "Server error")) /\ UNCHANGED thresholds
         ELSE /\ thresholds' = Append(thresholds, ThresholdDefaults)
              /\ WithCurrent(r, Len(thresholds) + 1, ThresholdDefaults)
    /\ UNCHANGED <<now, users, activityLog, relayCalls, pi, emitted, socks,
                   piData, resets>>

PutSave_IgnoresFailure(r) ==
    /\ reqs[r].pc = "save"
    /\ \E dbOk \in BOOLEAN :
         LET q == reqs[r] IN
         /\ thresholds' = IF dbOk
                          THEN [thresholds EXCEPT ![q.docId] =
                                    SaveDoc(@, q.base, q.doc)]
                          ELSE thresholds
         /\ relayCalls' = Append(relayCalls,
                RelayCall(r, "/api/thresholds/bulk", q.changed, NoCommand))
         /\ reqs' = [reqs EXCEPT ![r] = [q EXCEPT !.pc = "relay",
                        !.saved = dbOk, !.base = IF dbOk THEN q.doc ELSE q.base]]
    /\ UNCHANGED <<now, users, activityLog, pi, emitted, socks, piData, resets>>

\* await thresholds.save(), then the axios.post is issued
PutSave(r) ==
    /\ reqs[r].pc = "save"
    /\ \E dbOk \in BOOLEAN :
         LET q == reqs[r] IN
         IF ~dbOk
         THEN /\ Finish(r, Json(500, FALSE, "Server error"))
              /\ UNCHANGED <<thresholds, relayCalls>>
         ELSE /\ thresholds' = [thresholds EXCEPT ![q.docId] =
                                    SaveDoc(@, q.base, q.doc)]
              /\ relayCalls' = Append(relayCalls,
                     RelayCall(r, "/api/thresholds/bulk", q.changed, NoCommand))
              /\ reqs' = [reqs EXCEPT ![r] = [q EXCEPT !.pc = "relay",
                             !.saved = TRUE, !.base = q.doc]]
    /\ UNCHANGED <<now, users, activityLog, pi, emitted, socks, piData, resets>>

PutSettled_StampAlways(q, outcome, t) ==
    [q EXCEPT !.pc = "saveSync", !.relay = outcome,
              !.doc.lastSyncedWithArduino = t]

\* the inner try of PUT: after a 2xx answer lastSyncedWithArduino = new Date()
\* and save() is called; otherwise the catch swallows the error
PutSettled(q, outcome, t) ==
    IF outcome = "ok"
    THEN [q EXCEPT !.pc = "saveSync", !.relay = outcome,
                   !.doc.lastSyncedWithArduino = t]
    ELSE [q EXCEPT !.pc = "log", !.relay = outcome]

\* the relay call of PUT settles
PutRelay(r) ==
    /\ reqs[r].pc = "relay"
    /\ reqs[r].route = "PUT /api/thresholds"
    /\ \E outcome \in RelayOutcomes :
         /\ pi' = IF PiAccepted(outcome)
                  THEN [pi EXCEPT !.thresholds = PiApply(@, reqs[r].changed)]
                  ELSE pi
         /\ reqs' = [reqs EXCEPT ![r] = PutSettled(@, outcome, now + 1)]
    /\ now' = now + 1
    /\ UNCHANGED <<users, thresholds, activityLog, relayCalls, emitted, socks,
                   piData, resets>>

\* await thresholds.save() of the stamp; a failure is caught with the relay's
PutSaveSync(r) ==
    /\ reqs[r].pc = "saveSync"
    /\ \E dbOk \in BOOLEAN :
         LET q == reqs[r] IN
         IF ~dbOk
         THEN /\ reqs' = [reqs EXCEPT ![r] = [q EXCEPT !.pc = "log"]]
              /\ UNCHANGED thresholds
         ELSE /\ thresholds' = [thresholds EXCEPT ![q.docId] =
                                    SaveDoc(@, q.base, q.doc)]
              /\ reqs' = [reqs EXCEPT ![r] = [q EXCEPT !.pc = "log",
                             !.synced = TRUE, !.base = q.doc]]
    /\ UNCHANGED <<now, users, activityLog, relayCalls, pi, emitted, socks,
                   piData, resets>>

\* await ActivityLog.create, io.emit('threshold_update'), res.json
PutLog(r) ==
    /\ reqs[r].pc = "log"
    /\ reqs[r].route = "PUT /api/thresholds"
    /\ \E dbOk \in BOOLEAN :
         LET q == reqs[r] IN
         IF ~dbOk
         THEN /\ Finish(r, Json(500, FALSE, "Server error"))
              /\ UNCHANGED <<activityLog, emitted>>
         ELSE /\ activityLog' = Append(activityLog,
                     LogEntry(r, q.user, "threshold_changed", q.changed, NoCommand))
              /\ emitted' = Append(emitted,
                     Event("threshold_update", r, q.changed, NoCommand, q.user,
                           LiveSockets))
              /\ Finish(r, JsonData(200, TRUE, "Thresholds updated successfully",
                                    q.doc))
    /\ UNCHANGED <<now, users, thresholds, relayCalls, pi, socks, piData,
                   resets>>

ManualSettled_LogsAnyway(q, outcome) ==
    [q EXCEPT !.pc = "log", !.relay = outcome]

ManualSettled_AcceptsLate(q, outcome) ==
    IF PiAccepted(outcome)
    THEN [q EXCEPT !.pc = "log", !.relay = outcome]
    ELSE [q EXCEPT !.pc = "done", !.relay = outcome,
                   !.resp = Json(503, FALSE,
                       "Failed to communicate with greenhouse controller")]

\* the try around the axios.post of /control and /auto: on a 2xx answer the
\* handler goes on to ActivityLog.create, otherwise the catch answers 503
ManualSettled(q, outcome) ==
    IF outcome = "ok"
    THEN [q EXCEPT !.pc = "log", !.relay = outcome]
    ELSE [q EXCEPT !.pc = "done", !.relay = outcome,
                   !.resp = Json(503, FALSE,
                       "Failed to communicate with greenhouse controller")]

\* /control and /auto: the relay call settles
ManualRelay(r) ==
    /\ reqs[r].pc = "relay"
    /\ reqs[r].route \in ManualRoutes
    /\ \E outcome \in RelayOutcomes :
         LET q == reqs[r] IN
         /\ pi' = IF ~PiAccepted(outcome) THEN pi
                  ELSE IF q.route = "POST /api/manual/control"
                  THEN [pi EXCEPT !.manual = q.command, !.auto = FALSE]
                  ELSE [pi EXCEPT !.auto = TRUE]
         /\ reqs' = [reqs EXCEPT ![r] = ManualSettled(q, outcome)]
    /\ now' = now + 1
    /\ UNCHANGED <<users, thresholds, activityLog, relayCalls, emitted, socks,
                   piData, resets>>

\* /control and /auto: await ActivityLog.create, io.emit, res.json; a failure
\* of the create lands in the catch that answers 503
ManualLog(r) ==
    /\ reqs[r].pc = "log"
    /\ reqs[r].route \in ManualRoutes
    /\ \E dbOk \in BOOLEAN :
         LET q == reqs[r]
             control == q.route = "POST /api/manual/control"
         IN
         IF ~dbOk
         THEN /\ Finish(r, Json(503, FALSE,
                      "Failed to communicate with greenhouse controller"))
              /\ UNCHANGED <<activityLog, emitted>>
         ELSE /\ activityLog' = Append(activityLog,
                     LogEntry(r, q.user, "manual_control", EmptyBody, q.cmd))
              /\ emitted' = Append(emitted,
                     Event(IF control THEN "manual_control" ELSE "auto_mode_resumed",
                           r, EmptyBody, q.cmd, q.user, LiveSockets))
              /\ Finish(r, Json(200, TRUE,
                     IF ~control THEN "Automatic mode resumed"
                     ELSE IF q.cmd.state = "true" THEN "turned ON"
                     ELSE "turned OFF"))
    /\ UNCHANGED <<now, users, thresholds, relayCalls, pi, socks, piData,
                   resets>>

\* ------------------------------------------------------------ settings
ArriveSettings(r) ==
    \E route \in SettingsRoutes, token \in Tokens : Arrive(r, route, token)

\* document.save() of a User document: an update of the stored document by
\* _id, which rejects when the document is gone
UserSaved(id, dbOk) == dbOk /\ users[id].exists

\* PUT /theme: req.user.theme = theme; await req.user.save(); res.json
ThemeSave(r) ==
    /\ reqs[r].pc = "themeSave"
    /\ \E dbOk \in BOOLEAN :
         LET q == reqs[r] IN
         IF ~UserSaved(q.user, dbOk)
         THEN Finish(r, Json(500, FALSE, "Server error")) /\ UNCHANGED users
         ELSE /\ users' = [users EXCEPT ![q.user].theme = q.input]
              /\ reqs' = [reqs EXCEPT ![r] = [q EXCEPT !.pc = "done",
                     !.wrote = TRUE,
                     !.resp = Json(200, TRUE, "Theme updated successfully")]]
    /\ UNCHANGED <<now, thresholds, activityLog, relayCalls, pi, emitted, socks,
                   piData, resets>>

\* PUT /username: await User.findOne({ username, _id: { $ne } })
NameFind(r) ==
    /\ reqs[r].pc = "nameFind"
    /\ \E dbOk \in BOOLEAN :
         LET q == reqs[r]
             existing == \E u \in UserIds \ {q.user} :
                            users[u].exists /\ users[u].username = q.input
         IN
         IF ~dbOk THEN Finish(r, Json(500, FALSE, "Server error"))
         ELSE IF existing
         THEN Finish(r, Json(400, FALSE, "Username already taken"))
         ELSE reqs' = [reqs EXCEPT ![r] = [q EXCEPT !.pc = "nameSave"]]
    /\ UNCHANGED <<now, users, thresholds, activityLog, relayCalls, pi, emitted, socks,
                   piData, resets>>

\* PUT /username: req.user.username = newUsername; await req.user.save()
NameSave(r) ==
    /\ reqs[r].pc = "nameSave"
    /\ \E dbOk \in BOOLEAN :
         LET q == reqs[r] IN
         IF ~UserSaved(q.user, dbOk)
         THEN Finish(r, Json(500, FALSE, "Server error")) /\ UNCHANGED users
         ELSE /\ users' = [users EXCEPT ![q.user].username = q.input]
              /\ reqs' = [reqs EXCEPT ![r] = [q EXCEPT !.pc = "nameLog",
                                                       !.wrote = TRUE]]
    /\ UNCHANGED <<now, thresholds, activityLog, relayCalls, pi, emitted, socks,
                   piData, resets>>

\* PUT /username: await ActivityLog.create; res.json
NameLog(r) ==
    /\ reqs[r].pc = "nameLog"
    /\ \E dbOk \in BOOLEAN :
         LET q == reqs[r] IN
         IF ~dbOk
         THEN Finish(r, Json(500, FALSE, "Server error")) /\ UNCHANGED activityLog
         ELSE /\ activityLog' = Append(activityLog,
                     LogEntry(r, q.user, "password_changed", EmptyBody, NoCommand))
              /\ Finish(r, Json(200, TRUE, "Username updated successfully"))
    /\ UNCHANGED <<now, users, thresholds, relayCalls, pi, emitted, socks,
                   piData, resets>>

\* --------------------------------------------------------------- admin
\* A request arrives, whatever the other requests are doing.
ArriveConcurrent(r, route, token) ==
    /\ reqs[r].pc = "idle"
    /\ \A q \in Req : q < r => reqs[q].pc # "idle"
    /\ now' = now + 1
    /\ reqs' = [reqs EXCEPT ![r] = [@ EXCEPT !.pc = "protect", !.route = route,
                   !.token = token, !.t0 = now + 1]]
    /\ UNCHANGED <<users, thresholds, activityLog, relayCalls, pi, emitted, socks,
                   piData, resets>>

ArriveAdmin(r) ==
    \E route \in AdminRoutes, token \in AdminTokens :
        ArriveConcurrent(r, route, token)

TargetReject_NoHeadAdminGuard(q, doc) ==
    IF q.route = "DELETE /api/admin/users/:id"
    THEN IF doc.role = "admin" /\ q.role # "head_admin"
         THEN Json(403, FALSE, "Only head admin can delete other admins")
         ELSE NoResp
    ELSE IF q.route = "PUT /api/admin/users/:id/promote"
    THEN IF doc.role = "admin" THEN Json(400, FALSE, "User is already an admin")
         ELSE NoResp
    ELSE IF q.route = "PUT /api/admin/users/:id/demote"
    THEN IF doc.role = "user"
         THEN Json(400, FALSE, "User is already a regular user")
         ELSE NoResp
    ELSE IF doc.role = "admin"
         THEN Json(403, FALSE,
                   IF q.route = "PUT /api/admin/users/:id/ban"
                   THEN "Cannot ban administrators"
                   ELSE "Cannot restrict administrators")
         ELSE NoResp

\* the checks of the admin handlers on the role of the loaded target
TargetReject(q, doc) ==
    IF q.route = "DELETE /api/admin/users/:id"
    THEN IF doc.role = "head_admin"
         THEN Json(403, FALSE, "Cannot delete head admin")
         ELSE IF doc.role = "admin" /\ q.role # "head_admin"
         THEN Json(403, FALSE, "Only head admin can delete other admins")
         ELSE NoResp
    ELSE IF q.route = "PUT /api/admin/users/:id/promote"
    THEN IF doc.role = "admin" THEN Json(400, FALSE, "User is already an admin")
         ELSE IF doc.role = "head_admin"
         THEN Json(400, FALSE, "User is already head admin")
         ELSE NoResp
    ELSE IF q.route = "PUT /api/admin/users/:id/demote"
    THEN IF doc.role = "head_admin"
         THEN Json(403, FALSE, "Cannot demote head admin")
         ELSE IF doc.role = "user"
         THEN Json(400, FALSE, "User is already a regular user")
         ELSE NoResp
    ELSE IF doc.role \in {"head_admin", "admin"}
         THEN Json(403, FALSE,
                   IF q.route = "PUT /api/admin/users/:id/ban"
                   THEN "Cannot ban administrators"
                   ELSE "Cannot restrict administrators")
         ELSE NoResp

\* the assignment the handler makes to the loaded target
AdminEdit(q, doc) ==
    IF q.route = "PUT /api/admin/users/:id/ban"
    THEN [doc EXCEPT !.status = IF q.flag THEN "banned" ELSE "active"]
    ELSE IF q.route = "PUT /api/admin/users/:id/restrict"
    THEN [doc EXCEPT !.status = IF q.flag THEN "restricted" ELSE "active"]
    ELSE IF q.route = "PUT /api/admin/users/:id/promote"
    THEN [doc EXCEPT !.role = "admin"]
    ELSE [doc EXCEPT !.role = "user"]

\* await User.findById(req.params.id) and the checks on what it returned
AdminFind(r) ==
    /\ reqs[r].pc = "adminFind"
    /\ \E dbOk \in BOOLEAN :
         LET q == reqs[r]
             doc == users[q.target]
         IN
         IF ~dbOk THEN Finish(r, Json(500, FALSE, "Server error"))
         ELSE IF ~doc.exists THEN Finish(r, Json(404, FALSE, "User not found"))
         ELSE IF TargetReject(q, doc) # NoResp
         THEN reqs' = [reqs EXCEPT ![r] = [q EXCEPT !.pc = "done", !.tdoc = doc,
                                                   !.resp = TargetReject(q, doc)]]
         ELSE reqs' = [reqs EXCEPT ![r] = [q EXCEPT !.tdoc = doc,
                 !.pc = IF q.route = "DELETE /api/admin/users/:id"
                        THEN "adminDelete" ELSE "adminSave"]]
    /\ UNCHANGED <<now, users, thresholds, activityLog, relayCalls, pi, emitted, socks,
                   piData, resets>>

\* DELETE: await userToDelete.deleteOne()
AdminDelete(r) ==
    /\ reqs[r].pc = "adminDelete"
    /\ \E dbOk \in BOOLEAN :
         LET q == reqs[r] IN
         IF ~dbOk
         THEN Finish(r, Json(500, FALSE, "Server error")) /\ UNCHANGED users
         ELSE /\ users' = [users EXCEPT ![q.target].exists = FALSE]
              /\ reqs' = [reqs EXCEPT ![r] = [q EXCEPT !.pc = "adminLog",
                                                       !.wrote = TRUE]]
    /\ UNCHANGED <<now, thresholds, activityLog, relayCalls, pi, emitted, socks,
                   piData, resets>>

\* ban, restrict, promote, demote: await user.save(), which sends the
\* modified paths, and nothing when no path is modified; restrict answers
AdminSave(r) ==
    /\ reqs[r].pc = "adminSave"
    /\ \E dbOk \in BOOLEAN :
         LET q == reqs[r]
             edited == AdminEdit(q, q.tdoc)
             clean == ModifiedPaths(q.tdoc, edited) = {}
         IN
         IF ~clean /\ ~UserSaved(q.target, dbOk)
         THEN Finish(r, Json(500, FALSE, "Server error")) /\ UNCHANGED users
         ELSE /\ users' = [users EXCEPT ![q.target] = SaveDoc(@, q.tdoc, edited)]
              /\ reqs' = [reqs EXCEPT ![r] =
                    IF q.route = "PUT /api/admin/users/:id/restrict"
                    THEN [q EXCEPT !.pc = "done", !.wrote = ~clean,
                             !.resp = Json(200, TRUE,
                                 IF q.flag THEN "User restricted successfully"
                                 ELSE "User unrestricted successfully")]
                    ELSE [q EXCEPT !.pc = "adminLog", !.wrote = ~clean]]
    /\ UNCHANGED <<now, thresholds, activityLog, relayCalls, pi, emitted, socks,
                   piData, resets>>

\* io.to(user.socketId).emit('force_disconnect') of the ban handler, for the
\* isOnline and socketId its findById returned
ForceDisconnect(r, q) ==
    IF q.route = "PUT /api/admin/users/:id/ban" /\ q.flag
       /\ q.tdoc.isOnline /\ q.tdoc.socketId # 0
    THEN <<Event("force_disconnect", r, EmptyBody, NoCommand, q.target,
                 {q.tdoc.socketId} \cap LiveSockets)>>
    ELSE <<>>

\* await ActivityLog.create, the force_disconnect of a ban, res.json
AdminLog(r) ==
    /\ reqs[r].pc = "adminLog"
    /\ \E dbOk \in BOOLEAN :
         LET q == reqs[r] IN
         IF ~dbOk
         THEN /\ Finish(r, Json(500, FALSE, "Server error"))
              /\ UNCHANGED <<activityLog, emitted>>
         ELSE /\ activityLog' = Append(activityLog,
                     LogEntry(r, q.user, q.route, EmptyBody, NoCommand))
              /\ emitted' = emitted \o ForceDisconnect(r, q)
              /\ Finish(r, Json(200, TRUE, "success"))
    /\ UNCHANGED <<now, users, thresholds, relayCalls, pi, socks, piData,
                   resets>>

\* ------------------------------------------------------- login / logout
\* POST /login arrives: 400 without a username, else await User.findOne
ArriveLogin(r) ==
    /\ reqs[r].pc = "idle"
    /\ InFlight = {}
    /\ \A q \in Req : q < r => reqs[q].pc # "idle"
    /\ now' = now + 1
    /\ \E name \in LoginNames :
         reqs' = [reqs EXCEPT ![r] =
            IF name = ""
            THEN [@ EXCEPT !.pc = "done", !.route = LOGIN, !.t0 = now + 1,
                     !.resp = Json(400, FALSE,
                                   "Please provide username and password")]
            ELSE [@ EXCEPT !.pc = "loginFind", !.route = LOGIN, !.t0 = now + 1,
                           !.input = name]]
    /\ UNCHANGED <<users, thresholds, activityLog, relayCalls, pi, emitted, socks,
                   piData, resets>>

\* POST /login: the user found, the banned check, comparePassword
LoginFind(r) ==
    /\ reqs[r].pc = "loginFind"
    /\ \E dbOk \in BOOLEAN, isMatch \in BOOLEAN :
         LET q == reqs[r]
             doc == users[q.input]
         IN
         IF ~dbOk THEN Finish(r, Json(500, FALSE, "Server error during login"))
         ELSE IF ~doc.exists THEN Finish(r, Json(401, FALSE, "Invalid credentials"))
         ELSE IF doc.status = "banned"
         THEN Finish(r, Json(403, FALSE,
                  "Your account has been banned. Contact an administrator."))
         ELSE IF ~isMatch THEN Finish(r, Json(401, FALSE, "Invalid credentials"))
         ELSE reqs' = [reqs EXCEPT ![r] = [q EXCEPT !.pc = "loginSave",
                          !.user = q.input, !.tdoc = doc]]
    /\ UNCHANGED <<now, users, thresholds, activityLog, relayCalls, pi, emitted, socks,
                   piData, resets>>

\* POST /login: lastLogin = new Date(); isOnline = true; await user.save()
LoginSave(r) ==
    /\ reqs[r].pc = "loginSave"
    /\ \E dbOk \in BOOLEAN :
         LET q == reqs[r]
             edited == [q.tdoc EXCEPT !.lastLogin = now, !.isOnline = TRUE]
         IN
         IF ~UserSaved(q.user, dbOk)
         THEN /\ Finish(r, Json(500, FALSE, "Server error during login"))
              /\ UNCHANGED users
         ELSE /\ users' = [users EXCEPT ![q.user] = SaveDoc(@, q.tdoc, edited)]
              /\ reqs' = [reqs EXCEPT ![r] = [q EXCEPT !.pc = "authLog",
                                                       !.wrote = TRUE]]
    /\ UNCHANGED <<now, thresholds, activityLog, relayCalls, pi, emitted, socks,
                   piData, resets>>

\* POST /logout: req.user.isOnline = false; socketId = null; await save()
LogoutSave(r) ==
    /\ reqs[r].pc = "logoutSave"
    /\ \E dbOk \in BOOLEAN :
         LET q == reqs[r]
             edited == [q.tdoc EXCEPT !.isOnline = FALSE, !.socketId = 0]
             clean == ModifiedPaths(q.tdoc, edited) = {}
         IN
         IF ~clean /\ ~UserSaved(q.user, dbOk)
         THEN /\ Finish(r, Json(500, FALSE, "Server error during logout"))
              /\ UNCHANGED users
         ELSE /\ users' = [users EXCEPT ![q.user] = SaveDoc(@, q.tdoc, edited)]
              /\ reqs' = [reqs EXCEPT ![r] = [q EXCEPT !.pc = "authLog",
                                                       !.wrote = ~clean]]
    /\ UNCHANGED <<now, thresholds, activityLog, relayCalls, pi, emitted, socks,
                   piData, resets>>

\* POST /login, /logout: await ActivityLog.create; the response
AuthLog(r) ==
    /\ reqs[r].pc = "authLog"
    /\ \E dbOk \in BOOLEAN :
         LET q == reqs[r]
             login == q.route = LOGIN
         IN
         IF ~dbOk
         THEN /\ Finish(r, Json(500, FALSE,
                      IF login THEN "Server error during login"
                      ELSE "Server error during logout"))
              /\ UNCHANGED activityLog
         ELSE /\ activityLog' = Append(activityLog,
                     LogEntry(r, q.user, IF login THEN "login" ELSE "logout",
                              EmptyBody, NoCommand))
              /\ Finish(r, Json(200, TRUE,
                     IF login THEN "Login successful" ELSE "Logout successful"))
    /\ UNCHANGED <<now, users, thresholds, relayCalls, pi, emitted, socks,
                   piData, resets>>

\* logout and ban requests, served one at a time
ArriveSession(r) ==
    \E route \in {LOGOUT, "PUT /api/admin/users/:id/ban"},
       token \in SessionTokens :
        Arrive(r, route, token)

\* ------------------------------------------------------- specifications
PiInit == [thresholds |-> [k \in validKeys |-> ThresholdDefaults[k]],
           manual |-> NoCommand, auto |-> TRUE]

\* the ForgotPasswordRequest collection: one pending request, made by uma
\* with POST /api/auth/forgot-password
ResetSeed ==
    [i \in ResetIds |-> [NoReset EXCEPT !.user = "uma", !.status = "pending"]]

\* the collections the Pi feeds, empty
NoPiData == [Reading |-> <<>>, Event |-> <<>>, SystemAlert |-> <<>>,
             PiStatus |-> <<>>]

\* the connections open while the requests are served
SeedOwner(s) == IF s = 1 THEN "hana" ELSE "uma"

SeedSocks(L) ==
    [s \in Sock |-> IF s \in L
                    THEN [SockIdle EXCEPT !.pc = "open", !.user = SeedOwner(s),
                                          !.token = SeedOwner(s),
                                          !.updated = TRUE]
                    ELSE SockIdle]

SeedUsers(L) ==
    [u \in UserIds |->
        LET mine == {s \in L : SeedOwner(s) = u} IN
        IF mine = {} THEN UserSeed[u]
        ELSE [UserSeed[u] EXCEPT !.isOnline = TRUE,
                 !.socketId = CHOOSE s \in mine : \A t \in mine : t <= s]]

InitHttp ==
    /\ now = 1
    /\ \E n \in 0..NumSock : socks = SeedSocks(1..n) /\ users = SeedUsers(1..n)
    /\ thresholds = <<>>
    /\ activityLog = <<>>
    /\ reqs = [r \in Req |-> ReqIdle]
    /\ relayCalls = <<>>
    /\ pi = PiInit
    /\ emitted = <<>>
    /\ piData = NoPiData
    /\ resets = ResetSeed

NextThresholds ==
    \E r \in Req :
        \/ ArriveThresholds(r)
        \/ Protect(r)
        \/ ThFindOne(r)
        \/ ThCreate(r)
        \/ PutSave(r)
        \/ PutRelay(r)
        \/ PutSaveSync(r)
        \/ PutLog(r)

\* threshold reads and writes, served one at a time
Spec == InitHttp /\ [][NextThresholds]_vars

NextManual ==
    \E r \in Req \cap (1..NumManualReq) :
        \/ ArriveManual(r)
        \/ Protect(r)
        \/ ManualRelay(r)
        \/ ManualLog(r)

\* actuator commands and resume-auto requests, served one at a time
SpecManual == InitHttp /\ [][NextManual]_vars

\* every route that relays to the Pi: threshold writes and manual commands
SpecRelay == InitHttp /\ [][NextThresholds \/ NextManual]_vars

\* the steps of request r that the server takes by itself: the middleware
\* and every continuation after an answer of the database
ServerStep(r) ==
    \/ Protect(r)
    \/ ThFindOne(r)
    \/ ThCreate(r)
    \/ PutSave(r)
    \/ PutSaveSync(r)
    \/ PutLog(r)
    \/ ManualLog(r)

\* axios' timeout: 5000 fires and rejects the relay call of r
RelayTimesOut(r) ==
    /\ PutRelay(r) \/ ManualRelay(r)
    /\ reqs'[r].relay \in {"timeout", "timeout_late"}

\* the relaying routes where the database always answers and the timer of a
\* relay call always fires; the Pi is free never to answer
SpecRelayFair ==
    /\ SpecRelay
    /\ \A r \in Req : WF_vars(ServerStep(r)) /\ WF_vars(RelayTimesOut(r))

NextSettings ==
    \E r \in Req :
        \/ ArriveSettings(r)
        \/ Protect(r)
        \/ ThemeSave(r)
        \/ NameFind(r)
        \/ NameSave(r)
        \/ NameLog(r)

\* the settings of the caller's own account, requests served one at a time
SpecSettings == InitHttp /\ [][NextSettings]_vars

NextAdmin ==
    \E r \in Req :
        \/ ArriveAdmin(r)
        \/ Protect(r)
        \/ AdminFind(r)
        \/ AdminDelete(r)
        \/ AdminSave(r)
        \/ AdminLog(r)

\* the user-management requests of admins, their handlers interleaved
SpecAdmin == InitHttp /\ [][NextAdmin]_vars

\* threshold requests arriving whatever the other requests are doing
ArriveRace(r) ==
    \E route \in ThresholdRoutes :
        ArriveConcurrent(r, route, "uma")

NextRace ==
    \E r \in Req :
        \/ ArriveRace(r)
        \/ Protect(r)
        \/ ThFindOne(r)
        \/ ThCreate(r)
        \/ PutSave(r)
        \/ PutRelay(r)
        \/ PutSaveSync(r)
        \/ PutLog(r)

\* threshold reads and writes of one user, their handlers interleaved
SpecRace == InitHttp /\ [][NextRace]_vars

\* ------------------------------------------------------------ Socket.IO
\* tokens presented in the handshake
SockTokens == {"uma", "hana", "ben", NoToken}

\* io.use: the handshake is refused for a missing / invalid token, a failed
\* lookup, an unknown user and a banned one
HandshakeRefused(token, dbOk) ==
    \/ token = NoToken
    \/ ~dbOk
    \/ ~users[token].exists
    \/ users[token].status = "banned"

\* io.use: the Error handed to next(), "" when the handshake is accepted
HandshakeError(token, dbOk) ==
    IF token = NoToken THEN "Authentication required"
    ELSE IF ~dbOk THEN "Authentication failed"
    ELSE IF ~users[token].exists THEN "User not found"
    ELSE IF users[token].status = "banned" THEN "Account banned"
    ELSE ""

\* User.findByIdAndUpdate(id, { isOnline, socketId }): no filter on socketId
UpdatePresence(id, online, sid) ==
    IF users[id].exists
    THEN [users EXCEPT ![id].isOnline = online, ![id].socketId = sid]
    ELSE users

\* io.use, and on next() the 'connection' event: the handler runs up to its
\* await User.findByIdAndUpdate
SockHandshake(s) ==
    /\ socks[s].pc = "new"
    /\ \A t \in Sock : t < s => socks[t].pc # "new"
    /\ \E token \in SockTokens, dbOk \in BOOLEAN :
         socks' = [socks EXCEPT ![s] =
            IF HandshakeRefused(token, dbOk)
            THEN [@ EXCEPT !.pc = "refused", !.token = token,
                           !.error = HandshakeError(token, dbOk)]
            ELSE [@ EXCEPT !.pc = "connecting", !.token = token,
                           !.user = token, !.openedAt = now + 1]]
    /\ now' = now + 1
    /\ UNCHANGED <<users, thresholds, activityLog, reqs, relayCalls, pi, emitted,
                   piData, resets>>

\* the connection handler resumes (its catch has swallowed a failed update,
\* updated records whether it succeeded): io.emit('user_online') and
\* socket.on('disconnect', ...), which a socket that has already
\* disconnected never fires
SockConnected(s) ==
    /\ socks[s].pc \in {"connecting", "dropped"}
    /\ \E dbOk \in BOOLEAN :
         /\ users' = IF dbOk THEN UpdatePresence(socks[s].user, TRUE, s)
                     ELSE users
         /\ socks' = [socks EXCEPT ![s] = [@ EXCEPT
                !.pc = IF socks[s].pc = "connecting" THEN "open" ELSE "lost",
                !.handledAt = now + 1,
                !.updated = dbOk]]
    /\ emitted' = Append(emitted,
           Event("user_online", 0, EmptyBody, NoCommand, socks[s].user,
                 LiveSockets))
    /\ now' = now + 1
    /\ UNCHANGED <<thresholds, activityLog, reqs, relayCalls, pi, piData,
                   resets>>

\* the client goes away: 'disconnect' fires and its handler runs up to its
\* await User.findByIdAndUpdate
SockClose(s) ==
    /\ socks[s].pc \in {"connecting", "open"}
    /\ socks' = [socks EXCEPT ![s] = [@ EXCEPT
           !.pc = IF socks[s].pc = "open" THEN "closing" ELSE "dropped",
           !.closedAt = now + 1]]
    /\ now' = now + 1
    /\ UNCHANGED <<users, thresholds, activityLog, reqs, relayCalls, pi, emitted,
                   piData, resets>>

\* the disconnect handler resumes: io.emit('user_offline')
SockDisconnected(s) ==
    /\ socks[s].pc = "closing"
    /\ \E dbOk \in BOOLEAN :
         users' = IF dbOk THEN UpdatePresence(socks[s].user, FALSE, 0) ELSE users
    /\ emitted' = Append(emitted,
           Event("user_offline", 0, EmptyBody, NoCommand, socks[s].user,
                 LiveSockets))
    /\ socks' = [socks EXCEPT ![s] = [@ EXCEPT !.pc = "closed"]]
    /\ now' = now + 1
    /\ UNCHANGED <<thresholds, activityLog, reqs, relayCalls, pi, piData,
                   resets>>

InitPresence ==
    /\ now = 1
    /\ socks = [s \in Sock |-> SockIdle]
    /\ users = UserSeed
    /\ thresholds = <<>>
    /\ activityLog = <<>>
    /\ reqs = [r \in Req |-> ReqIdle]
    /\ relayCalls = <<>>
    /\ pi = PiInit
    /\ emitted = <<>>
    /\ piData = NoPiData
    /\ resets = ResetSeed

NextPresence ==
    \E s \in Sock :
        \/ SockHandshake(s)
        \/ SockConnected(s)
        \/ SockClose(s)
        \/ SockDisconnected(s)

\* live connections opening and closing, their handlers interleaved
SpecPresence == InitPresence /\ [][NextPresence]_vars

NextSession ==
    \/ \E s \in Sock \cap (1..NumSessionSock) :
          \/ SockHandshake(s)
          \/ SockConnected(s)
          \/ SockClose(s)
          \/ SockDisconnected(s)
    \/ \E r \in Req :
          \/ ArriveLogin(r)
          \/ ArriveSession(r)
          \/ Protect(r)
          \/ LoginFind(r)
          \/ LoginSave(r)
          \/ LogoutSave(r)
          \/ AuthLog(r)
          \/ AdminFind(r)
          \/ AdminSave(r)
          \/ AdminLog(r)

\* logins, logouts and bans while live connections open and close
SpecSession == InitPresence /\ [][NextSession]_vars

\* ------------------------------------------------------ password resets
\* who calls the reset routes: the head admin, an admin, a plain user
ResetTokens == {"hana", "ada", "uma"}

ArriveReset(r) ==
    \E route \in ResetRoutes, token \in ResetTokens :
        ArriveConcurrent(r, route, token)

\* the check approve makes on the request it loaded; reject makes none
AlreadyResolved(route, request) ==
    route = APPROVE /\ request.status # "pending"

\* await ForgotPasswordRequest.findById(id) (approve: with populate('user')):
\* the 404, approve's 400 for a request that is not pending; approve goes on
\* to user.password = newPassword and user.save(), reject to its
\* assignments and request.save()
ResetFind(r) ==
    /\ reqs[r].pc = "resetFind"
    /\ \E dbOk \in BOOLEAN :
         LET q == reqs[r]
             request == resets[q.requestId]
         IN
         IF ~dbOk THEN Finish(r, Json(500, FALSE, "Server error"))
         ELSE IF q.requestId \notin ResetIds
         THEN Finish(r, Json(404, FALSE, "Request not found"))
         ELSE IF AlreadyResolved(q.route, request)
         THEN Finish(r, Json(400, FALSE, "Request already resolved"))
         ELSE IF q.route = APPROVE /\ ~users[request.user].exists
         THEN Finish(r, Json(500, FALSE, "Server error"))
         ELSE reqs' = [reqs EXCEPT ![r] =
                 IF q.route = APPROVE
                 THEN [q EXCEPT !.pc = "resetUserSave", !.request = request,
                                !.target = request.user,
                                !.tdoc = users[request.user]]
                 ELSE [q EXCEPT !.pc = "resetSave", !.request = request,
                                !.stamp = now]]
    /\ UNCHANGED <<now, users, thresholds, activityLog, relayCalls, pi, emitted,
                   socks, piData, resets>>

\* approve: await user.save() of the new password, then the assignments to
\* the request
ResetUserSave(r) ==
    /\ reqs[r].pc = "resetUserSave"
    /\ \E dbOk \in BOOLEAN :
         LET q == reqs[r] IN
         IF ~UserSaved(q.target, dbOk)
         THEN Finish(r, Json(500, FALSE, "Server error")) /\ UNCHANGED users
         ELSE /\ users' = [users EXCEPT ![q.target] =
                    SaveDoc(@, q.tdoc, [q.tdoc EXCEPT !.password = q.input])]
              /\ reqs' = [reqs EXCEPT ![r] = [q EXCEPT !.pc = "resetSave",
                                                  !.stamp = now]]
    /\ UNCHANGED <<now, thresholds, activityLog, relayCalls, pi, emitted, socks,
                   piData, resets>>

\* request.status = ...; request.approvedBy = req.user._id;
\* request.resolvedAt = new Date();
Resolved(q) ==
    [q.request EXCEPT
        !.status = IF q.route = APPROVE THEN "approved" ELSE "rejected",
        !.approvedBy = q.user,
        !.resolvedAt = q.stamp]

\* await request.save()
ResetSave(r) ==
    /\ reqs[r].pc = "resetSave"
    /\ \E dbOk \in BOOLEAN :
         LET q == reqs[r] IN
         IF ~dbOk
         THEN Finish(r, Json(500, FALSE, "Server error")) /\ UNCHANGED resets
         ELSE /\ resets' = [resets EXCEPT ![q.requestId] =
                               SaveDoc(@, q.request, Resolved(q))]
              /\ reqs' = [reqs EXCEPT ![r] = [q EXCEPT !.pc = "resetLog",
                                                  !.wrote = TRUE]]
    /\ UNCHANGED <<now, users, thresholds, activityLog, relayCalls, pi, emitted,
                   socks, piData>>

\* await ActivityLog.create, res.json
ResetLog(r) ==
    /\ reqs[r].pc = "resetLog"
    /\ \E dbOk \in BOOLEAN :
         LET q == reqs[r] IN
         IF ~dbOk
         THEN Finish(r, Json(500, FALSE, "Server error")) /\ UNCHANGED activityLog
         ELSE /\ activityLog' = Append(activityLog,
                     LogEntry(r, q.user,
                              IF q.route = APPROVE THEN "forgot_password_approved"
                              ELSE "forgot_password_rejected",
                              EmptyBody, NoCommand))
              /\ Finish(r, Json(200, TRUE,
                     IF q.route = APPROVE
                     THEN "Password reset approved and new password set"
                     ELSE "Password reset request rejected"))
    /\ UNCHANGED <<now, users, thresholds, relayCalls, pi, emitted, socks,
                   piData, resets>>

NextReset ==
    \E r \in Req :
        \/ ArriveReset(r)
        \/ Protect(r)
        \/ ResetFind(r)
        \/ ResetUserSave(r)
        \/ ResetSave(r)
        \/ ResetLog(r)

\* approvals and rejections of the pending password reset request, their
\* handlers interleaved
SpecReset == InitHttp /\ [][NextReset]_vars

\* --------------------------------------------- broadcasts after a ban
\* the head admin bans or unbans a user, or writes thresholds
ArriveBroadcast(r) ==
    \E route \in {"PUT /api/admin/users/:id/ban", "PUT /api/thresholds"} :
        Arrive(r, route, "hana")

NextBroadcast ==
    \E r \in Req :
        \/ ArriveBroadcast(r)
        \/ Protect(r)
        \/ AdminFind(r)
        \/ AdminSave(r)
        \/ AdminLog(r)
        \/ ThFindOne(r)
        \/ ThCreate(r)
        \/ PutSave(r)
        \/ PutRelay(r)
        \/ PutSaveSync(r)
        \/ PutLog(r)

\* bans and threshold writes of the head admin, one at a time, while the
\* connections that were open stay open: the server closes none of them and
\* no client leaves
SpecBroadcast == InitHttp /\ [][NextBroadcast]_vars

\* --------------------------------------------------------- registration
REGISTER == "POST /api/auth/register"

\* req.body.username (the email goes with it): absent, or one of two names
RegisterNames == {"", "hana", "uma"}

\* no account under this id
Absent == [NoDoc EXCEPT !.exists = FALSE]

\* POST /register arrives, whatever the other requests are doing: the 400 of
\* a missing field, else the handler runs up to await User.findOne
ArriveRegister(r) ==
    /\ reqs[r].pc = "idle"
    /\ \A q \in Req : q < r => reqs[q].pc # "idle"
    /\ now' = now + 1
    /\ \E name \in RegisterNames :
         reqs' = [reqs EXCEPT ![r] =
            IF name = ""
            THEN [@ EXCEPT !.pc = "done", !.route = REGISTER, !.t0 = now + 1,
                     !.resp = Json(400, FALSE,
                         "Please provide username, email, and password")]
            ELSE [@ EXCEPT !.pc = "registerFind", !.route = REGISTER,
                           !.t0 = now + 1, !.input = name]]
    /\ UNCHANGED <<users, thresholds, activityLog, relayCalls, pi, emitted, socks,
                   piData, resets>>

\* the catch of POST /register
RegisterFailed == Json(500, FALSE, "Server error during registration")

\* await User.findOne({ $or: [{ email }, { username }] }): 400 when taken
RegisterFind(r) ==
    /\ reqs[r].pc = "registerFind"
    /\ \E dbOk \in BOOLEAN :
         IF ~dbOk THEN Finish(r, RegisterFailed)
         ELSE IF users[reqs[r].input].exists
         THEN Finish(r, Json(400, FALSE,
                  "User with this email or username already exists"))
         ELSE reqs' = [reqs EXCEPT ![r] = [@ EXCEPT !.pc = "registerCount"]]
    /\ UNCHANGED <<now, users, thresholds, activityLog, relayCalls, pi, emitted,
                   socks, piData, resets>>

\* role = userCount === 0 ? 'head_admin' : 'user'
RoleFor(userCount) == IF userCount = 0 THEN "head_admin" ELSE "user"

\* const userCount = await User.countDocuments(); const role = ...
RegisterCount(r) ==
    /\ reqs[r].pc = "registerCount"
    /\ \E dbOk \in BOOLEAN :
         IF ~dbOk THEN Finish(r, RegisterFailed)
         ELSE reqs' = [reqs EXCEPT ![r] = [@ EXCEPT !.pc = "registerCreate",
                  !.role = RoleFor(Cardinality({u \in UserIds : users[u].exists}))]]
    /\ UNCHANGED <<now, users, thresholds, activityLog, relayCalls, pi, emitted,
                   socks, piData, resets>>

\* await User.create({ username, email, password, role }): the unique indexes
\* reject a name taken since the findOne
RegisterCreate(r) ==
    /\ reqs[r].pc = "registerCreate"
    /\ \E dbOk \in BOOLEAN :
         LET q == reqs[r] IN
         IF ~dbOk \/ users[q.input].exists
         THEN Finish(r, RegisterFailed) /\ UNCHANGED users
         ELSE /\ users' = [users EXCEPT ![q.input] =
                             SeedUser(q.role, "active", q.input)]
              /\ reqs' = [reqs EXCEPT ![r] = [q EXCEPT !.pc = "registerLog",
                             !.user = q.input, !.wrote = TRUE]]
    /\ UNCHANGED <<now, thresholds, activityLog, relayCalls, pi, emitted, socks,
                   piData, resets>>

\* await ActivityLog.create({ action: 'user_created' }), sendTokenResponse 201
RegisterLog(r) ==
    /\ reqs[r].pc = "registerLog"
    /\ \E dbOk \in BOOLEAN :
         LET q == reqs[r] IN
         IF ~dbOk THEN Finish(r, RegisterFailed) /\ UNCHANGED activityLog
         ELSE /\ activityLog' = Append(activityLog,
                     LogEntry(r, q.user, "user_created", EmptyBody, NoCommand))
              /\ Finish(r, Json(201, TRUE,
                     IF q.role = "head_admin"
                     THEN "Account created successfully. You are the Head Admin!"
                     ELSE "Account created successfully. Welcome!"))
    /\ UNCHANGED <<now, users, thresholds, relayCalls, pi, emitted, socks,
                   piData, resets>>

\* a fresh installation: no account yet
InitRegister ==
    /\ now = 1
    /\ socks = [s \in Sock |-> SockIdle]
    /\ users = [u \in UserIds |-> Absent]
    /\ thresholds = <<>>
    /\ activityLog = <<>>
    /\ reqs = [r \in Req |-> ReqIdle]
    /\ relayCalls = <<>>
    /\ pi = PiInit
    /\ emitted = <<>>
    /\ piData = NoPiData
    /\ resets = ResetSeed

NextRegister ==
    \E r \in Req :
        \/ ArriveRegister(r)
        \/ RegisterFind(r)
        \/ RegisterCount(r)
        \/ RegisterCreate(r)
        \/ RegisterLog(r)

\* registrations on a fresh installation, their handlers interleaved
SpecRegister == InitRegister /\ [][NextRegister]_vars

\* ------------------------------------------------------ process restart
\* who asks for the online users: the head admin, a plain user
OnlineTokens == {"hana", "uma"}

ArriveOnline(r) ==
    \E token \in OnlineTokens : Arrive(r, ONLINE, token)

\* GET /users/online: await User.find({ isOnline: true }), res.json with the
\* users found; the catch answers 500
OnlineFind(r) ==
    /\ reqs[r].pc = "onlineFind"
    /\ \E dbOk \in BOOLEAN :
         IF ~dbOk THEN Finish(r, Json(500, FALSE, "Server error"))
         ELSE Finish(r, JsonData(200, TRUE, "",
                  {u \in UserIds : users[u].exists /\ users[u].isOnline}))
    /\ UNCHANGED <<now, users, thresholds, activityLog, relayCalls, pi, emitted,
                   socks, piData, resets>>

\* the process stops with connections open and is started again: no handler
\* of the old process runs any further, its connections are gone and its
\* requests stay unanswered; startServer connects to the database and
\* listens, the collections are as the old process left them
Restart ==
    /\ LiveSockets # {}
    /\ socks' = [s \in Sock |->
                   IF socks[s].pc \in {"connecting", "open", "closing", "dropped"}
                   THEN [socks[s] EXCEPT !.pc = "gone", !.closedAt = now + 1]
                   ELSE socks[s]]
    /\ reqs' = [r \in Req |->
                  IF r \in InFlight THEN [reqs[r] EXCEPT !.pc = "done"]
                  ELSE reqs[r]]
    /\ now' = now + 1
    /\ UNCHANGED <<users, thresholds, activityLog, relayCalls, pi, emitted,
                   piData, resets>>

NextRestart ==
    \/ \E s \in Sock :
          \/ SockHandshake(s)
          \/ SockConnected(s)
          \/ SockClose(s)
          \/ SockDisconnected(s)
    \/ \E r \in Req \cap (1..NumQuery) :
          \/ ArriveOnline(r)
          \/ Protect(r)
          \/ OnlineFind(r)
    \/ Restart

\* live connections and online-users queries across restarts of the process
SpecRestart == InitPresence /\ [][NextRestart]_vars

\* ------------------------------------------------------------ Pi routes
READINGS == "POST /api/pi/readings"
EVENTS == "POST /api/pi/events"
HEARTBEAT == "POST /api/pi/heartbeat"
ALERTS == "POST /api/pi/alerts"
BatchRoutes == {READINGS, EVENTS, ALERTS}
PiRoutes == BatchRoutes \cup {HEARTBEAT}

\* the x-api-key header: process.env.PI_API_KEY, another key, none
PI_API_KEY == "pi-key"
ApiKeys == {PI_API_KEY, "wrong-key", NoToken}

\* SystemAlertSchema.level enum
AlertLevels == {"INFO", "WARNING", "ERROR", "CRITICAL"}

\* the items of a batch: a reading with or without its required temp, an
\* event with or without its required name, an alert with a level of the
\* enum or outside it
ReadingInputs == {[temp |-> Num(21)], [temp |-> Num(35)], [temp |-> Undefined]}
EventInputs == {[event |-> "pump_on"], [event |-> "fan_off"], [event |-> ""]}
AlertInputs == {[level |-> l] : l \in AlertLevels \cup {"DEBUG"}}

ItemInputs(route) ==
    IF route = READINGS THEN ReadingInputs
    ELSE IF route = EVENTS THEN EventInputs
    ELSE AlertInputs

\* req.body.readings / events / alerts: absent, or an array of up to MaxBatch
\* items
BatchInputs(route) ==
    {[isArray |-> FALSE, items |-> <<>>]} \cup
    {[isArray |-> TRUE, items |-> b] :
        b \in UNION {[1..n -> ItemInputs(route)] : n \in 0..MaxBatch}}

\* the fields of PiStatus a heartbeat may carry (two of the schema's eight)
StatusFields == {"arduino_reboot_count", "pending_readings"}
StatusValues(f) ==
    IF f = "arduino_reboot_count" THEN {Num(1)} ELSE {Num(0), Num(5)}

\* req.body of a heartbeat: any subset of the fields, each with a value
HeartbeatInputs ==
    UNION {{b \in [D -> {Num(0), Num(1), Num(5)}] :
               \A f \in D : b[f] \in StatusValues(f)} : D \in SUBSET StatusFields}

\* the model a batch route stores into
CollectionOf(route) ==
    IF route = READINGS THEN "Reading"
    ELSE IF route = EVENTS THEN "Event"
    ELSE "SystemAlert"

\* schema validation of one item: the required paths and the level enum
ItemValid(route, item) ==
    IF route = READINGS THEN item.temp.t = "num"
    ELSE IF route = EVENTS THEN item.event # ""
    ELSE item.level \in AlertLevels

\* the error of the 400 and of the catch of each route
ArrayRequired(route) ==
    IF route = READINGS THEN "Readings array required"
    ELSE IF route = EVENTS THEN "Events array required"
    ELSE "Alerts array required"

FailedToSave(route) ==
    IF route = READINGS THEN "Failed to save readings"
    ELSE IF route = EVENTS THEN "Failed to save events"
    ELSE "Failed to save alerts"

\* piAuth: 401 without a key, 403 with a key other than PI_API_KEY
PiAuthReject(key) ==
    IF key = NoToken THEN Json(401, FALSE, "API key required")
    ELSE IF key # PI_API_KEY THEN Json(403, FALSE, "Invalid API key")
    ELSE NoResp

\* a request of the Pi arrives, whatever the other requests are doing
ArrivePi(r) ==
    /\ reqs[r].pc = "idle"
    /\ \A q \in Req : q < r => reqs[q].pc # "idle"
    /\ \E route \in PiRoutes, key \in ApiKeys :
         reqs' = [reqs EXCEPT ![r] = [@ EXCEPT !.pc = "piAuth", !.route = route,
                     !.token = key, !.t0 = now + 1]]
    /\ now' = now + 1
    /\ UNCHANGED <<users, thresholds, activityLog, relayCalls, pi, emitted, socks,
                   piData, resets>>

\* router.use(piAuth) and the handler up to its await: the 400 of a body
\* without the array, the mapped documents handed to insertMany, the
\* heartbeat's { ...data, lastHeartbeat: new Date() }
PiAuth(r) ==
    /\ reqs[r].pc = "piAuth"
    /\ LET q == reqs[r] IN
       IF PiAuthReject(q.token) # NoResp
       THEN Finish(r, PiAuthReject(q.token))
       ELSE IF q.route = HEARTBEAT
       THEN \E body \in HeartbeatInputs :
               reqs' = [reqs EXCEPT ![r] = [q EXCEPT !.pc = "update",
                           !.updates = body, !.stamp = now]]
       ELSE \E body \in BatchInputs(q.route) :
               IF ~body.isArray
               THEN Finish(r, Json(400, FALSE, ArrayRequired(q.route)))
               ELSE reqs' = [reqs EXCEPT ![r] = [q EXCEPT !.pc = "insert",
                                !.batch = body.items]]
    /\ UNCHANGED <<now, users, thresholds, activityLog, relayCalls, pi, emitted,
                   socks, piData, resets>>

\* a stored document of a batch: the item, with the request and the position
\* it came from
Stored(r, q, n) == [req |-> r, n |-> n, item |-> q.batch[n]]

\* the event that carries a stored document
PiEvent(topic, r, doc) ==
    [Event(topic, r, EmptyBody, NoCommand, NoUser, LiveSockets)
        EXCEPT !.doc = doc]

\* the alerts of a batch that are broadcast: CRITICAL and ERROR
Broadcast(level) == level = "CRITICAL" \/ level = "ERROR"

Latest_First(inserted) == 1

\* inserted[inserted.length - 1]: the position of the reading that is
\* broadcast
Latest(inserted) == inserted

\* the io.emit calls that follow a resolved insertMany: the last reading,
\* every event, every alert whose level is broadcast
Emits(r, q) ==
    LET n == Len(q.batch)
        each(topic, keep(_)) ==
            LET idx == {i \in 1..n : keep(q.batch[i])}
                F[k \in 0..n] ==
                    IF k = 0 THEN <<>>
                    ELSE IF k \in idx
                    THEN Append(F[k - 1], PiEvent(topic, r, Stored(r, q, k)))
                    ELSE F[k - 1]
            IN F[n]
        all(item) == TRUE
        loud(item) == Broadcast(item.level)
    IN IF q.route = READINGS
       THEN IF n > 0 THEN <<PiEvent("new_reading", r, Stored(r, q, Latest(n)))>>
            ELSE <<>>
       ELSE IF q.route = EVENTS THEN each("automation_event", all)
       ELSE each("system_alert", loud)

\* await Model.insertMany(docs) and what follows it.  Validation runs first
\* and rejects the whole batch; the insert itself is ordered and not atomic:
\* when the store fails at document failAt the documents before it stay
\* stored and insertMany rejects.  After a resolved insert: io.emit and
\* res.json({ success, count }); after a rejected one: the catch's 500.
PiInsert(r) ==
    /\ reqs[r].pc = "insert"
    /\ LET q == reqs[r]
           n == Len(q.batch)
           c == CollectionOf(q.route)
           docs(k) == [i \in 1..k |-> Stored(r, q, i)]
       IN \E failAt \in 0..n :
           IF \E i \in 1..n : ~ItemValid(q.route, q.batch[i])
           THEN /\ Finish(r, Json(500, FALSE, FailedToSave(q.route)))
                /\ UNCHANGED <<piData, emitted>>
           ELSE IF failAt # 0
           THEN /\ piData' = [piData EXCEPT ![c] = @ \o docs(failAt - 1)]
                /\ Finish(r, Json(500, FALSE, FailedToSave(q.route)))
                /\ UNCHANGED emitted
           ELSE /\ piData' = [piData EXCEPT ![c] = @ \o docs(n)]
                /\ emitted' = emitted \o Emits(r, q)
                /\ Finish(r, JsonData(200, TRUE, "", [count |-> n]))
    /\ UNCHANGED <<now, users, thresholds, activityLog, relayCalls, pi, socks,
                   resets>>

\* PiStatus.findOneAndUpdate({}, { ...data, lastHeartbeat }, { upsert: true }):
\* an update document without operators is applied as $set, so the first
\* document gets the given fields and keeps its others; without a document
\* one is inserted with the given fields only
UpdateStatus(coll, data, t) ==
    LET fresh == [set |-> [f \in StatusFields |->
                             IF f \in DOMAIN data THEN data[f] ELSE Undefined],
                  lastHeartbeat |-> t]
    IN IF coll = <<>> THEN <<fresh>>
       ELSE [coll EXCEPT ![1] =
               [set |-> [f \in StatusFields |->
                           IF f \in DOMAIN data THEN data[f] ELSE @.set[f]],
                lastHeartbeat |-> t]]

\* await PiStatus.updateStatus(statusData), io.emit('pi_status', statusData),
\* res.json({ success: true }); the catch answers 500
Heartbeat(r) ==
    /\ reqs[r].pc = "update"
    /\ LET q == reqs[r] IN
       \E dbOk \in BOOLEAN :
           IF ~dbOk
           THEN /\ Finish(r, Json(500, FALSE, "Failed to update status"))
                /\ UNCHANGED <<piData, emitted>>
           ELSE /\ piData' = [piData EXCEPT !.PiStatus =
                                  UpdateStatus(@, q.updates, q.stamp)]
                /\ emitted' = Append(emitted, PiEvent("pi_status", r, q.updates))
                /\ Finish(r, Json(200, TRUE, ""))
    /\ UNCHANGED <<now, users, thresholds, activityLog, relayCalls, pi, socks,
                   resets>>

NextPi ==
    \E r \in Req :
        \/ ArrivePi(r)
        \/ PiAuth(r)
        \/ PiInsert(r)
        \/ Heartbeat(r)

\* the Pi's submissions and heartbeats, their handlers interleaved
SpecPi == InitHttp /\ [][NextPi]_vars

\* ============================================================== claims
PUT == "PUT /api/thresholds"
GET == "GET /api/thresholds"
CONTROL == "POST /api/manual/control"
AUTO == "POST /api/manual/auto"

Done(r) == reqs[r].pc = "done"
\* the relay call of r was made and did not get its 2xx answer in time
RelayFailed(r) == reqs[r].relay \notin {"none", "ok"}
\* no request that arrived after r has saved thresholds
LastSaver(r) == \A p \in Req : reqs[p].saved => reqs[p].t0 <= reqs[r].t0
\* no request that arrived between w and g has saved thresholds
NoSaveBetween(w, g) ==
    \A p \in Req : reqs[p].saved =>
        ~(reqs[w].t0 < reqs[p].t0 /\ reqs[p].t0 < reqs[g].t0)
EventsOf(r) == {i \in DOMAIN emitted : emitted[i].req = r}
RelayCallsOf(r) == {i \in DOMAIN relayCalls : relayCalls[i].by = r}
LogEntriesOf(r) == {i \in DOMAIN activityLog : activityLog[i].req = r}
\* what a threshold response tells apart from its data: status, success, message
Report(r) == <<reqs[r].resp.status, reqs[r].resp.success, reqs[r].resp.text>>

\* C1: when the disconnect handler of a connection c1 completes while another
\* connection c2 of the same user, connected before c1 went away, is the
\* recorded one, it changes nothing: the user is still online and c2 is still
\* the recorded connection.
C1_StaleDisconnectIsNoOp ==
    [][\A c1 \in Sock :
          LET u == socks[c1].user
              c2 == users[u].socketId
          IN (/\ socks[c1].pc = "closing"
              /\ socks'[c1].pc = "closed"
              /\ users[u].isOnline
              /\ c2 \in Sock \ {c1}
              /\ socks[c2].pc = "open"
              /\ socks[c2].user = u
              /\ socks[c2].handledAt < socks[c1].closedAt)
             => users'[u].isOnline /\ users'[u].socketId = c2]_vars

\* C2: once the relay call of a saved threshold write has failed, and as long
\* as no later write is saved, the stored document holds the written values
\* and the lastSyncedWithArduino the write found; a later GET returns both.
C2_FailedRelayKeepsWrite ==
    \A w \in Req :
        (reqs[w].route = PUT /\ reqs[w].saved /\ RelayFailed(w)) =>
            /\ LastSaver(w) =>
                  /\ \A k \in DOMAIN reqs[w].changed :
                        thresholds[1][k] = reqs[w].changed[k]
                  /\ thresholds[1].lastSyncedWithArduino
                        = reqs[w].loaded.lastSyncedWithArduino
            /\ \A g \in Req :
                  (/\ reqs[g].route = GET /\ Done(g) /\ reqs[g].resp.status = 200
                   /\ reqs[g].t0 > reqs[w].t0 /\ NoSaveBetween(w, g)) =>
                      /\ \A k \in DOMAIN reqs[w].changed :
                            reqs[g].resp.data[k] = reqs[w].changed[k]
                      /\ reqs[g].resp.data.lastSyncedWithArduino
                            = reqs[w].loaded.lastSyncedWithArduino

C2_Witness ==
    \E w, g \in Req :
        /\ reqs[w].route = PUT /\ Done(w) /\ reqs[w].saved
        /\ reqs[w].relay = "timeout"
        /\ "soil1" \in DOMAIN reqs[w].changed
        /\ reqs[w].changed["soil1"] # ThresholdDefaults.soil1
        /\ reqs[g].route = GET /\ Done(g) /\ reqs[g].t0 > reqs[w].t0
        /\ reqs[g].resp.status = 200
        /\ reqs[g].resp.data.soil1 = reqs[w].changed["soil1"]

\* C3: when a threshold write whose relay failed is followed by a threshold
\* write whose relay succeeded, and both are answered 200, the Pi holds the
\* stored value of every field a saved write has named.
C3_LaterRelayConverges ==
    \A w1, w2 \in Req :
        (/\ reqs[w1].route = PUT /\ Done(w1) /\ reqs[w1].saved
         /\ RelayFailed(w1) /\ ~PiAccepted(reqs[w1].relay)
         /\ reqs[w1].resp.status = 200
         /\ reqs[w2].route = PUT /\ Done(w2) /\ reqs[w2].relay = "ok"
         /\ reqs[w2].synced /\ reqs[w2].resp.status = 200
         /\ reqs[w2].t0 > reqs[w1].t0
         /\ LastSaver(w2)) =>
            \A p \in Req : reqs[p].saved =>
                \A k \in DOMAIN reqs[p].changed :
                    pi.thresholds[k] = thresholds[1][k]

\* C4: every answered threshold write whose save succeeded has emitted a
\* threshold_update carrying its changed fields to all live connections.
C4_SavedWritePublishes ==
    \A r \in Req :
        (reqs[r].route = PUT /\ Done(r) /\ reqs[r].saved) =>
            \E i \in EventsOf(r) :
                /\ emitted[i].topic = "threshold_update"
                /\ emitted[i].changed = reqs[r].changed
                /\ emitted[i].to = LiveSockets

\* C5: the answer to a saved threshold write whose relay failed reports it:
\* its status, success flag and message are not those of the answer to a
\* write whose relay succeeded.
C5_RelayFailureReported ==
    \A a, b \in Req :
        (/\ reqs[a].route = PUT /\ Done(a) /\ reqs[a].saved /\ RelayFailed(a)
         /\ reqs[a].resp.success
         /\ reqs[b].route = PUT /\ Done(b) /\ reqs[b].relay = "ok"
         /\ reqs[b].resp.success) =>
            Report(a) # Report(b)

C7_FailedSaveAborts ==
    \A r \in Req :
        (reqs[r].route = PUT /\ Done(r) /\ reqs[r].docId # 0 /\ ~reqs[r].saved) =>
            /\ reqs[r].resp.status = 500
            /\ ~reqs[r].resp.success
            /\ reqs[r].relay = "none"
            /\ RelayCallsOf(r) = {}
            /\ EventsOf(r) = {}

C7_Witness ==
    \E r \in Req :
        /\ reqs[r].route = PUT /\ Done(r) /\ reqs[r].docId # 0
        /\ ~reqs[r].saved
        /\ reqs[r].changed # EmptyBody
        /\ LiveSockets # {}

\* C8: an actuator command or resume-auto request whose relay call failed is
\* answered 503, publishes no event and appends no ActivityLog entry.
C8_RelayOnlyFailure ==
    \A r \in Req :
        (reqs[r].route \in ManualRoutes /\ RelayFailed(r)) =>
            /\ Done(r)
            /\ reqs[r].resp.status = 503
            /\ ~reqs[r].resp.success
            /\ EventsOf(r) = {}
            /\ LogEntriesOf(r) = {}

C8_Witness ==
    \E r \in Req :
        /\ reqs[r].route = CONTROL /\ Done(r) /\ reqs[r].relay = "timeout"
        /\ LiveSockets # {}

\* clamp(v, 0, 255) of a number v (in tenths)
Clamp(v) ==
    IF v.x10 < 0 THEN Num(0) ELSE IF v.x10 > 2550 THEN Num(255) ELSE v

IsInteger(v) == v.t = "num" /\ v.x10 % 10 = 0

C10_BroadcastCarriesRelayedPwm ==
    \A i \in DOMAIN emitted :
        emitted[i].topic = "manual_control" =>
            /\ reqs[emitted[i].req].relay = "ok"
            /\ emitted[i].cmd.pwm = reqs[emitted[i].req].command.pwm

\* the settings routes by class
SettingsWrites == {"PUT /api/settings/theme", "PUT /api/settings/username"}
SettingsReads == {"GET /api/settings"}

\* C11: a request of a restricted caller on a write-class settings route is
\* answered 403 and writes nothing; one on a read-class route is answered 200.
C11_RestrictedIsReadOnly ==
    \A r \in Req :
        (Done(r) /\ reqs[r].lookupOk /\ reqs[r].isRestricted) =>
            /\ reqs[r].route \in SettingsWrites =>
                  reqs[r].resp.status = 403 /\ ~reqs[r].wrote
            /\ reqs[r].route \in SettingsReads => reqs[r].resp.status = 200

DELETE == "DELETE /api/admin/users/:id"
BAN == "PUT /api/admin/users/:id/ban"
RESTRICT == "PUT /api/admin/users/:id/restrict"
PROMOTE == "PUT /api/admin/users/:id/promote"
DEMOTE == "PUT /api/admin/users/:id/demote"
\* the request passed adminOnly / headAdminOnly: its handler ran
Authorized(r) == reqs[r].target # NoUser

\* C12: no request of a restricted caller on an admin route is authorized,
\* whatever the caller's role: its handler never runs and nothing is written.
C12_RestrictedAdminBlocked ==
    \A r \in Req :
        (reqs[r].route \in AdminRoutes /\ reqs[r].lookupOk
         /\ reqs[r].isRestricted) =>
            ~Authorized(r) /\ ~reqs[r].wrote

\* C14: whatever delete, ban, restrict, demote (and promote) requests are
\* made, interleaved or not, every head_admin account exists, has role
\* head_admin and has status active.
C14_HeadAdminStays ==
    \A u \in UserIds :
        (UserSeed[u].role = "head_admin" \/ users[u].role = "head_admin") =>
            /\ users[u].exists
            /\ users[u].role = "head_admin"
            /\ users[u].status = "active"

C14_Witness ==
    \E a, b \in Req :
        /\ reqs[a].route = DEMOTE /\ reqs[b].route = BAN /\ reqs[b].flag
        /\ \A r \in {a, b} :
              /\ Done(r) /\ reqs[r].token = "hana" /\ reqs[r].target = "hana"
              /\ reqs[r].resp.status = 403

\* C15: a delete request of a caller whose role is admin never removes an
\* account whose stored role is admin, and a demote request writes only for
\* a head_admin caller.
C15_AdminCannotRemoveAdmin ==
    [][\A r \in Req :
          (~reqs[r].wrote /\ reqs'[r].wrote) =>
              /\ (reqs[r].route = DELETE /\ reqs[r].role = "admin") =>
                     users[reqs[r].target].role # "admin"
              /\ reqs[r].route = DEMOTE => reqs[r].role = "head_admin"]_vars

\* C16: the handler of an admin route runs only for a caller whose role is
\* admin or head_admin, that of promote and demote only for a head_admin;
\* any other authenticated caller is answered 403 before the handler, with
\* nothing written, logged or emitted.
C16_RoleGates ==
    \A r \in Req :
        (reqs[r].route \in AdminRoutes /\ reqs[r].lookupOk) =>
            LET allowed == IF reqs[r].route \in HeadAdminRoutes
                           THEN {"head_admin"} ELSE {"admin", "head_admin"}
            IN
            /\ (Authorized(r) \/ reqs[r].wrote) => reqs[r].role \in allowed
            /\ reqs[r].role \notin allowed =>
                  /\ Done(r) /\ reqs[r].resp.status = 403
                  /\ ~reqs[r].wrote /\ ~Authorized(r)
                  /\ LogEntriesOf(r) = {} /\ EventsOf(r) = {}

C16_Witness ==
    \E a, b \in Req :
        /\ reqs[a].route = DELETE /\ reqs[a].role = "user" /\ Done(a)
        /\ reqs[a].resp.status = 403
        /\ reqs[b].route = PROMOTE /\ reqs[b].role = "admin" /\ Done(b)
        /\ reqs[b].resp.status = 403

\* C13: the step that answers a request 401 (unauthenticated), 403 (banned,
\* restricted, role) or 400 (validation) changes no collection, issues no
\* relay call and emits nothing, and the request had done none of these
\* before it.
C13_RejectionHasNoEffect ==
    [][\A r \in Req :
          (/\ reqs[r].pc # "done" /\ reqs'[r].pc = "done"
           /\ reqs'[r].resp.status \in {400, 401, 403}) =>
              /\ UNCHANGED <<users, thresholds, activityLog, relayCalls, pi,
                             emitted>>
              /\ RelayCallsOf(r) = {} /\ LogEntriesOf(r) = {}
              /\ EventsOf(r) = {} /\ ~reqs[r].wrote]_vars

C13_Witness ==
    \E r \in Req :
        /\ reqs[r].route = CONTROL /\ Done(r) /\ reqs[r].resp.status = 400
        /\ reqs[r].cmd.actuator = "pump_water"
        /\ reqs[r].cmd.state = "\"on\""
        /\ reqs[r].cmd.pwm = Num(400)
        /\ RelayCallsOf(r) = {}

\* the live connections of user u
LiveOf(u) == {s \in LiveSockets : socks[s].user = u}
ForceDisconnectsOf(r, events) ==
    {i \in DOMAIN events :
        events[i].req = r /\ events[i].topic = "force_disconnect"}

\* C17: when a ban request that has marked its target banned completes, and
\* the target has one live connection, open since before the request arrived,
\* the request has emitted exactly one force_disconnect, delivered to that
\* connection and to no other.
C17_BanForcesDisconnect ==
    [][\A r \in Req, s \in Sock :
          (/\ reqs[r].route = BAN /\ reqs[r].flag /\ reqs[r].wrote
           /\ reqs[r].pc # "done" /\ reqs'[r].pc = "done"
           /\ LiveOf(reqs[r].target) = {s}
           /\ socks[s].pc = "open"
           /\ socks[s].handledAt < reqs[r].t0) =>
              /\ Cardinality(ForceDisconnectsOf(r, emitted')) = 1
              /\ \A i \in ForceDisconnectsOf(r, emitted') :
                    emitted'[i].to = {s}]_vars

BannedAnswers ==
    {Json(403, FALSE, "Your account has been banned"),
     Json(401, FALSE, "Not authorized to access this route")}

\* C18: protect answers a request whose token is that of a banned account
\* with 403 'Your account has been banned' (with the 401 of its catch when
\* the lookup throws): the handler never runs and nothing changes.  io.use
\* refuses a handshake with such a token with 'Account banned'
\* ('Authentication failed' when the lookup throws); a refused connection
\* stays refused, is never recorded as a user's socketId, and its refusal
\* emits nothing.
C18_BannedCredentialRejected ==
    [][/\ \A r \in Req :
             LET t == reqs[r].token IN
             (/\ reqs[r].pc = "protect" /\ reqs'[r].pc # "protect"
              /\ t \in UserIds /\ users[t].exists
              /\ users[t].status = "banned") =>
                 /\ reqs'[r].pc = "done"
                 /\ reqs'[r].resp \in BannedAnswers
                 /\ reqs'[r].user = NoUser /\ ~reqs'[r].wrote
                 /\ UNCHANGED <<users, thresholds, activityLog, relayCalls,
                                pi, emitted, socks>>
       /\ \A s \in Sock :
             LET t == socks'[s].token IN
             (/\ socks[s].pc = "new" /\ socks'[s].pc # "new"
              /\ t \in UserIds /\ users[t].exists
              /\ users[t].status = "banned") =>
                 /\ socks'[s].pc = "refused"
                 /\ socks'[s].error \in {"Account banned",
                                          "Authentication failed"}
                 /\ UNCHANGED <<users, emitted>>
       /\ \A s \in Sock :
             socks[s].pc = "refused" =>
                 /\ socks'[s] = socks[s]
                 /\ \A u \in UserIds : users[u].socketId # s]_vars

C18_Witness ==
    \E r \in Req, s \in Sock :
        /\ users["uma"].status = "banned" /\ UserSeed["uma"].status = "active"
        /\ reqs[r].token = "uma" /\ Done(r)
        /\ reqs[r].resp = Json(403, FALSE, "Your account has been banned")
        /\ socks[s].token = "uma" /\ socks[s].pc = "refused"
        /\ socks[s].error = "Account banned"

\* C19: the Threshold collection never holds more than one document, and a
\* GET that was answered 200 has left one behind.
C19_SingleThresholdSet ==
    /\ Len(thresholds) <= 1
    /\ \A r \in Req :
          (reqs[r].route = GET /\ Done(r) /\ reqs[r].resp.status = 200) =>
              thresholds # <<>>

\* the threshold writes whose save() has succeeded
SavedWrites == {w \in Req : reqs[w].route = PUT /\ reqs[w].saved}
\* the values the saved writes have named for field k
NamedFor(k) ==
    {reqs[w].changed[k] : w \in {v \in SavedWrites : k \in DOMAIN reqs[v].changed}}

\* C20: once threshold writes have completed their save(), the current
\* ThresholdSet (the document getCurrent returns) holds, for every field a
\* saved write named, a value one of the saved writes gave it.
C20_NoLostUpdate ==
    \A k \in validKeys :
        NamedFor(k) # {} => thresholds[1][k] \in NamedFor(k)

\* C21: a save() of a threshold write (the write itself or its stamp) leaves
\* every threshold field the request did not name with the stored value it
\* had before the save.
C21_UnnamedFieldsUntouched ==
    [][\A r \in Req :
          (/\ reqs[r].route = PUT
           /\ reqs[r].pc \in {"save", "saveSync"}
           /\ reqs'[r].pc # reqs[r].pc) =>
              \A k \in validKeys \ DOMAIN reqs[r].changed :
                  thresholds'[reqs[r].docId][k] = thresholds[reqs[r].docId][k]]_vars

C21_Witness ==
    \E a, b \in Req :
        /\ reqs[a].route = PUT /\ Done(a) /\ reqs[a].saved
        /\ reqs[a].changed = [k \in {"temp_high"} |-> 40]
        /\ reqs[b].route = PUT /\ Done(b) /\ reqs[b].saved
        /\ reqs[b].t0 > reqs[a].t0
        /\ reqs[b].changed = [k \in {"soil1"} |-> 35]
        /\ thresholds[1].temp_high = 40 /\ thresholds[1].soil1 = 35
        /\ thresholds[1].soil2 = ThresholdDefaults.soil2

\* the relay call of r timed out and the Pi's answer came after the timeout
LateAnswer(r) == reqs[r].relay = "timeout_late"

\* C30: a relay answer that arrives after the timeout is discarded: the
\* request is handled as a failed relay (no lastSyncedWithArduino stamp, not
\* in the document and not in the store; 503 without manual_control,
\* auto_mode_resumed or log entry for a manual command), and once the request
\* is answered neither its response nor the stored thresholds change because
\* of it and no further event is published for it.
C30_LateAnswerDiscarded ==
    /\ [](\A r \in Req : LateAnswer(r) =>
            /\ ~reqs[r].synced
            /\ reqs[r].pc # "saveSync"
            /\ reqs[r].doc.lastSyncedWithArduino
                   = reqs[r].loaded.lastSyncedWithArduino
            /\ \A i \in EventsOf(r) :
                   emitted[i].topic \notin {"manual_control", "auto_mode_resumed"}
            /\ reqs[r].route \in ManualRoutes =>
                   /\ Done(r) /\ reqs[r].resp.status = 503
                   /\ EventsOf(r) = {} /\ LogEntriesOf(r) = {})
    /\ [][\A r \in Req : LateAnswer(r) =>
            /\ reqs'[r] # reqs[r] => thresholds' = thresholds
            /\ Done(r) =>
                   /\ reqs'[r] = reqs[r]
                   /\ \A i \in DOMAIN emitted' \ DOMAIN emitted :
                          emitted'[i].req # r]_vars

C30_Witness ==
    \E a, b \in Req :
        /\ reqs[a].route = CONTROL /\ Done(a) /\ LateAnswer(a)
        /\ pi.manual = reqs[a].command /\ pi.manual # NoCommand
        /\ reqs[b].route = PUT /\ Done(b) /\ LateAnswer(b)
        /\ reqs[b].resp.status = 200
        /\ pi.thresholds # PiInit.thresholds

\* the presence events a step has published for identity u
NewPresenceEvents(u, topic) ==
    {i \in DOMAIN emitted' \ DOMAIN emitted :
        emitted'[i].topic = topic /\ emitted'[i].user = u}

\* C24: every step that changes an identity's stored online flag publishes
\* user_online (false to true) or user_offline (true to false) for it.
C24_TransitionBroadcasts ==
    [][\A u \in UserIds :
          /\ (~users[u].isOnline /\ users'[u].isOnline) =>
                 NewPresenceEvents(u, "user_online") # {}
          /\ (users[u].isOnline /\ ~users'[u].isOnline) =>
                 NewPresenceEvents(u, "user_offline") # {}]_vars

\* C26: a connection whose handler's update of the online flag failed is
\* still announced with user_online when the handler resumes, and a ban of
\* its identity that is saved and answered 200 while it is the identity's
\* one open connection delivers force_disconnect to it.
C26_FailedUpdateStaysLive ==
    [][/\ \A s \in Sock :
             (socks[s].pc = "connecting" /\ socks'[s].pc = "open"
              /\ ~socks'[s].updated) =>
                 \E i \in NewPresenceEvents(socks[s].user, "user_online") :
                     s \in emitted'[i].to
       /\ \A r \in Req, s \in Sock :
             (/\ reqs[r].route = BAN /\ reqs[r].flag /\ reqs[r].wrote
              /\ reqs[r].pc # "done" /\ reqs'[r].pc = "done"
              /\ reqs'[r].resp.status = 200
              /\ LiveOf(reqs[r].target) = {s}
              /\ socks[s].pc = "open" /\ ~socks[s].updated
              /\ socks[s].handledAt < reqs[r].t0) =>
                 \E i \in ForceDisconnectsOf(r, emitted') :
                     emitted'[i].to = {s}]_vars

\* C27: when two connections of one identity are open and both connection
\* handlers have completed, the identity is recorded online with the
\* connection that connected last as its socketId.
C27_LastConnectionRecorded ==
    \A a, b \in Sock :
        (/\ socks[a].pc = "open" /\ socks[b].pc = "open"
         /\ socks[a].user = socks[b].user
         /\ socks[a].openedAt < socks[b].openedAt) =>
            /\ users[socks[b].user].isOnline
            /\ users[socks[b].user].socketId = b

\* the documents request r has stored
StoredOf(r) ==
    {d \in UNION {{piData[c][i] : i \in DOMAIN piData[c]} :
                     c \in {"Reading", "Event", "SystemAlert"}} : d.req = r}

\* C22: a batch submission answered with the 500 of a failed store has left
\* none of its items stored and has published no event.
C22_BatchAllOrNothing ==
    \A r \in Req :
        (/\ reqs[r].route \in BatchRoutes /\ Done(r)
         /\ reqs[r].resp.status = 500) =>
            /\ StoredOf(r) = {}
            /\ EventsOf(r) = {}

\* C23: when a heartbeat has been applied, the PiStatus collection holds one
\* document and its fields are those of that heartbeat: the fields the
\* heartbeat carries have its values and the others are unset.
C23_HeartbeatOverwrites ==
    [][\A r \in Req :
          (/\ reqs[r].pc = "update" /\ reqs'[r].pc = "done"
           /\ reqs'[r].resp.status = 200) =>
              /\ Len(piData'.PiStatus) = 1
              /\ \A f \in StatusFields :
                    piData'.PiStatus[1].set[f] =
                        IF f \in DOMAIN reqs[r].updates
                        THEN reqs[r].updates[f] ELSE Undefined]_vars

\* the system_alert events that carry stored alert a
AlertEvents(a) ==
    {i \in DOMAIN emitted :
        emitted[i].topic = "system_alert" /\ emitted[i].doc = a}

\* C29: every stored alert of level ERROR or CRITICAL has been published as
\* system_alert, and no stored alert of level INFO or WARNING has.
C29_AlertBroadcastByLevel ==
    \A i \in DOMAIN piData.SystemAlert :
        LET a == piData.SystemAlert[i] IN
        AlertEvents(a) # {} <=> a.item.level \in {"ERROR", "CRITICAL"}

\* the connections of u that a restart has cut
CutBy(u) == {s \in Sock : socks[s].pc = "gone" /\ socks[s].user = u}

\* C25: an online-users query answered 200 does not report an identity
\* whose connections were cut by a restart and that has no live connection
\* now.
C25_RestartClearsOnline ==
    [][\A r \in Req :
          (/\ reqs[r].pc = "onlineFind" /\ reqs'[r].pc = "done"
           /\ reqs'[r].resp.status = 200) =>
              \A u \in reqs'[r].resp.data :
                  CutBy(u) # {} => LiveOf(u) # {}]_vars

\* the accounts that hold role head_admin
HeadAdmins == {u \in UserIds : users[u].exists /\ users[u].role = "head_admin"}

\* C28: on a fresh installation, whatever the registrations do, at most one
\* account is head_admin, and as soon as an account exists exactly one is.
C28_OneHeadAdmin ==
    /\ Cardinality(HeadAdmins) <= 1
    /\ (\E u \in UserIds : users[u].exists) => Cardinality(HeadAdmins) = 1

\* the events request r has published, in publish order
PublishedBy(r) ==
    LET F[k \in 0..Len(emitted)] ==
            IF k = 0 THEN <<>>
            ELSE IF emitted[k].req = r THEN Append(F[k - 1], emitted[k])
            ELSE F[k - 1]
    IN F[Len(emitted)]

\* C31: a readings batch of n > 0 items answered 200 has published one
\* event, new_reading with the last item of the batch; an events batch
\* answered 200 has published one automation_event per item, in batch order;
\* each of these events went to every connection live when it was published
\* (the connections do not change while the Pi's requests are served).
C31_BatchBroadcasts ==
    \A r \in Req :
        LET q == reqs[r]
            n == Len(q.batch)
            pub == PublishedBy(r)
        IN (Done(r) /\ q.resp.status = 200) =>
              /\ (q.route = READINGS /\ n > 0) =>
                     /\ Len(pub) = 1
                     /\ pub[1].topic = "new_reading"
                     /\ pub[1].doc = Stored(r, q, n)
                     /\ pub[1].to = LiveSockets
              /\ q.route = EVENTS =>
                     /\ Len(pub) = n
                     /\ \A i \in 1..n :
                            /\ pub[i].topic = "automation_event"
                            /\ pub[i].doc = Stored(r, q, i)
                            /\ pub[i].to = LiveSockets

C31_Witness ==
    \E a, b \in Req :
        /\ reqs[a].route = READINGS /\ Done(a) /\ reqs[a].resp.status = 200
        /\ reqs[a].batch = <<[temp |-> Num(21)], [temp |-> Num(35)]>>
        /\ reqs[b].route = EVENTS /\ Done(b) /\ reqs[b].resp.status = 200
        /\ reqs[b].batch = <<[event |-> "pump_on"], [event |-> "fan_off"]>>
        /\ Len(PublishedBy(a)) = 1 /\ Len(PublishedBy(b)) = 2
        /\ LiveSockets = Sock

\* C32: every threshold write, actuator command and resume-auto request that
\* has arrived is eventually answered, the Pi being free never to answer;
\* a relay call that timed out is handled as a relay failure: no
\* lastSyncedWithArduino stamp for a threshold write, the 503 for a manual
\* command.
C32_AlwaysAnswered ==
    /\ \A r \in Req :
          (reqs[r].pc # "idle") ~> (Done(r) /\ reqs[r].resp.status # 0)
    /\ [](\A r \in Req :
             (Done(r) /\ reqs[r].relay \in {"timeout", "timeout_late"}) =>
                 /\ RelayFailed(r)
                 /\ ~reqs[r].synced
                 /\ reqs[r].route \in ManualRoutes => reqs[r].resp.status = 503)

C32_Witness ==
    \E a, b \in Req :
        /\ reqs[a].route = AUTO /\ Done(a) /\ reqs[a].relay = "timeout"
        /\ reqs[a].resp.status = 503
        /\ reqs[b].route = PUT /\ Done(b) /\ reqs[b].relay = "timeout"
        /\ reqs[b].resp.status = 200 /\ ~reqs[b].synced
        /\ pi = PiInit

\* C33: no account holds role admin or head_admin together with status
\* banned or restricted.
C33_NoSanctionedAdmin ==
    \A u \in UserIds :
        (users[u].exists /\ users[u].role \in {"admin", "head_admin"}) =>
            users[u].status \notin {"banned", "restricted"}

\* C34: an actuator command or resume-auto request whose relay call got its
\* 2xx answer is not answered 503 'Failed to communicate with greenhouse
\* controller'.
C34_FailureMeansNotAccepted ==
    \A r \in Req :
        (reqs[r].route \in ManualRoutes /\ Done(r) /\ reqs[r].relay = "ok") =>
            reqs[r].resp # Json(503, FALSE,
                "Failed to communicate with greenhouse controller")

\* C35: a threshold write answered with a failure response has saved nothing
\* to the Threshold document and has made no relay call.
C35_FailedWriteHasNoEffect ==
    \A r \in Req :
        (reqs[r].route = PUT /\ Done(r) /\ ~reqs[r].resp.success) =>
            /\ ~reqs[r].saved
            /\ RelayCallsOf(r) = {}

\* C36: when two threshold writes that name the same field have both been
\* saved to the one Threshold document and relayed with a 2xx answer, and
\* every request has completed, the Pi holds for that field the value the
\* document holds.
C36_DeviceMatchesStore ==
    \A a, b \in Req :
        (/\ a # b /\ InFlight = {}
         /\ Len(thresholds) = 1
         /\ \A r \in {a, b} :
               /\ reqs[r].route = PUT /\ Done(r) /\ reqs[r].saved
               /\ reqs[r].relay = "ok" /\ reqs[r].docId = 1) =>
            \A k \in DOMAIN reqs[a].changed \cap DOMAIN reqs[b].changed :
                pi.thresholds[k] = thresholds[1][k]

\* a ban of u has been saved and its request has completed
BanCompleted(u) ==
    \E r \in Req :
        /\ reqs[r].route = BAN /\ reqs[r].flag /\ reqs[r].wrote /\ Done(r)
        /\ reqs[r].target = u

\* C37: an event published after a ban of an identity has completed, while
\* the identity is stored as banned, reaches an open connection of that
\* identity only if it is force_disconnect.
C37_BannedGetsNoBroadcast ==
    [][\A i \in DOMAIN emitted' \ DOMAIN emitted :
          \A s \in emitted'[i].to :
              (/\ socks[s].pc = "open"
               /\ users[socks[s].user].status = "banned"
               /\ BanCompleted(socks[s].user)) =>
                  emitted'[i].topic = "force_disconnect"]_vars

\* C38: a request leaving protect is judged by the stored document of its
\* identity as it is at that moment: a deleted identity is answered 401, a
\* banned one 403, an identity that is not (head) admin is refused on the
\* (head) admin routes, and a request that goes on carries the stored role
\* and the stored restriction.
C38_JudgedByStoredIdentity ==
    [][\A r \in Req :
          LET t == reqs[r].token
              q == reqs'[r]
          IN (reqs[r].pc = "protect" /\ q.pc # "protect" /\ t \in UserIds) =>
                /\ ~users[t].exists =>
                       q.pc = "done" /\ q.resp.status = 401
                /\ (users[t].exists /\ users[t].status = "banned") =>
                       q.pc = "done" /\ q.resp \in BannedAnswers
                /\ (/\ reqs[r].route \in AdminRoutes
                    /\ users[t].role \notin {"admin", "head_admin"}) =>
                       q.pc = "done" /\ q.resp.status \in {401, 403}
                /\ (/\ reqs[r].route \in HeadAdminRoutes
                    /\ users[t].role # "head_admin") =>
                       q.pc = "done" /\ q.resp.status \in {401, 403}
                /\ q.pc # "done" =>
                       /\ users[t].exists /\ users[t].status # "banned"
                       /\ q.role = users[t].role
                       /\ q.isRestricted = (users[t].status = "restricted")]_vars

C38_Witness ==
    \E a, b \in Req :
        /\ reqs[a].route = DEMOTE /\ reqs[a].target = "ada" /\ Done(a)
        /\ reqs[a].resp.status = 200
        /\ users["ada"].role = "user" /\ UserSeed["ada"].role = "admin"
        /\ reqs[b].token = "ada" /\ reqs[b].t0 > reqs[a].t0 /\ Done(b)
        /\ reqs[b].route \in AdminRoutes
        /\ reqs[b].resp =
               Json(403, FALSE, "Access denied. Admin privileges required.")

\* C39: once the status of a password reset request is approved or
\* rejected, no step changes its status, approvedBy or resolvedAt.
C39_ResolvedIsFinal ==
    [][\A i \in ResetIds :
          resets[i].status \in {"approved", "rejected"} =>
              /\ resets'[i].status = resets[i].status
              /\ resets'[i].approvedBy = resets[i].approvedBy
              /\ resets'[i].resolvedAt = resets[i].resolvedAt]_vars

====
